---- MODULE Spec2Model ----
(***************************************************************************)
(* Model of the document indexing and retrieval engine of RAG_Chatbot:     *)
(* EmbeddingService (index_document, search_similar_documents and its      *)
(* stages), DocumentService (process_document, _generate_embeddings_sync,  *)
(* delete_document) and RAGService._retrieve_relevant_documents.           *)
(*                                                                         *)
(* Strings that the code inspects character by character (person names,    *)
(* isolation keys) are sequences of one-character strings.  Scores are     *)
(* integers in units of 1/SCALE, so that 1.0 = SCALE.                      *)
(* The vector store is the ChromaDB collection opened with                 *)
(* chromadb.PersistentClient (embedding_service.py:41): records keyed by   *)
(* id, kept in insertion order; a metadata filter compares a value only    *)
(* with a stored value of the same type; add() skips an id that exists.    *)
(***************************************************************************)
EXTENDS Integers, Sequences, FiniteSets, TLC

\* ------------------------------------------------------------------ bounds
\* clock seconds 0..MaxClock seen by datetime.now()
MaxClock == 1
\* calls of EmbeddingService.index_document in one behaviour
MaxCalls == 3
\* records drawn into the store of the search specification
MaxStore == 2

\* ------------------------------------------------------------- characters
UpperOf == [c \in {"a", "b", "d", "i", "l", "m", "o", "p", "r", "u"} |->
              CASE c = "a" -> "A" [] c = "b" -> "B" [] c = "d" -> "D"
                [] c = "i" -> "I" [] c = "l" -> "L" [] c = "m" -> "M"
                [] c = "o" -> "O" [] c = "p" -> "P" [] c = "r" -> "R"
                [] c = "u" -> "U"]

LowerLetters == {"a", "b", "d", "i", "k", "l", "m", "n", "o", "p", "r", "u", "w"}
UpperLetters == {UpperOf[c] : c \in DOMAIN UpperOf}

\* str.lower() on one character
LowerChar(c) ==
    IF c \in UpperLetters THEN CHOOSE l \in DOMAIN UpperOf : UpperOf[l] = c ELSE c

\* str.lower()
Lower(s) == [i \in 1..Len(s) |-> LowerChar(s[i])]

IsSpace(c) == c = " "
IsAsciiLetter(c) == c \in LowerLetters \cup UpperLetters

\* a in b, for Python strings
Contains(b, a) ==
    \E i \in 1..(Len(b) - Len(a) + 1) : SubSeq(b, i, i + Len(a) - 1) = a

\* str.strip()
RECURSIVE LStrip(_)
LStrip(s) == IF s # <<>> /\ IsSpace(Head(s)) THEN LStrip(Tail(s)) ELSE s

RECURSIVE RStrip(_)
RStrip(s) ==
    IF s # <<>> /\ IsSpace(s[Len(s)]) THEN RStrip(SubSeq(s, 1, Len(s) - 1)) ELSE s

Strip(s) == RStrip(LStrip(s))

\* str.split(): the whitespace-separated words, in order
RECURSIVE SplitFrom(_, _, _)
SplitFrom(s, cur, acc) ==
    IF s = <<>> THEN (IF cur = <<>> THEN acc ELSE Append(acc, cur))
    ELSE IF IsSpace(Head(s))
         THEN SplitFrom(Tail(s), <<>>, IF cur = <<>> THEN acc ELSE Append(acc, cur))
         ELSE SplitFrom(Tail(s), Append(cur, Head(s)), acc)

Split(s) == SplitFrom(s, <<>>, <<>>)

\* re.sub(r'\s+', '_', s)
RECURSIVE SpacesToUnderscore(_, _)
SpacesToUnderscore(s, inRun) ==
    IF s = <<>> THEN <<>>
    ELSE IF IsSpace(Head(s))
         THEN (IF inRun THEN <<>> ELSE <<"_">>) \o SpacesToUnderscore(Tail(s), TRUE)
         ELSE <<Head(s)>> \o SpacesToUnderscore(Tail(s), FALSE)

KeepLetterOrSpace(c) == IsAsciiLetter(c) \/ IsSpace(c)

\* the name normalisation written out three times in the service:
\*   re.sub(r'[^a-zA-Z\s]', '', name.lower()); re.sub(r'\s+', '_', x.strip())
NormalizeName(name) ==
    SpacesToUnderscore(Strip(SelectSeq(Lower(name), KeepLetterOrSpace)), FALSE)

\* ------------------------------------------------------------ person names
\* the names chunks are indexed under and searches are aimed at; "" is a
\* document in which no name was found (person_info has no "name")
AliDup == <<"A", "l", "i", " ", "D", "u", "p">>
AliMar == <<"A", "l", "i", " ", "M", "a", "r">>
BobMar == <<"B", "o", "b", " ", "M", "a", "r">>
AlDup  == <<"A", "l", " ", "D", "u", "p">>
Blank  == <<" ">>
NoName == <<>>

StoredNames == {AliDup, AliMar, BobMar, NoName}
TargetPersons == {NoName, AliDup, AlDup, Blank}

\* ------------------------------------------------------- metadata values
\* a metadata value with its Python type: str(document_id) and the int
\* document_id of the pipeline's custom metadata are different values
StrV(n) == [ty |-> "str", v |-> n]
IntV(n) == [ty |-> "int", v |-> n]

DigitChar == <<"1", "2", "3", "4", "5", "6", "7", "8", "9">>
\* f"{document_id}" for the single-digit ids of the model
DocStr(d) == <<DigitChar[d]>>

Unknown == <<"u", "n", "k", "n", "o", "w", "n">>

\* a key the caller's metadata does not hold
Absent == [ty |-> "absent", v |-> 0]
AbsentIndex == -1

\* the caller's metadata argument, by the keys the model follows; metadata
\* = None is NoCustom (every key absent)
NoCustom == [document_id |-> Absent, chunk_index |-> AbsentIndex, student_name |-> <<>>]

\* the custom metadata _generate_embeddings_sync builds for chunk k of
\* document d: {"document_id": document_id, "chunk_index": ..., **chunk metadata}
PipelineMetadata(d, k, student) ==
    [document_id |-> IntV(d), chunk_index |-> k, student_name |-> student]

\* _extract_person_information: the name of the metadata (student_name),
\* else the name the patterns find in the content, then its normalisation
ExtractPersonInformation(content, metadata) ==
    LET name == IF metadata.student_name # <<>> THEN metadata.student_name
                ELSE content.name
    IN  IF name # <<>>
        THEN [has_name |-> TRUE, name |-> name, name_normalized |-> NormalizeName(name)]
        ELSE [has_name |-> FALSE, name |-> <<>>, name_normalized |-> <<>>]

\* person_info.get("name_normalized", "unknown")
NameKey(person_info) ==
    IF person_info.has_name THEN person_info.name_normalized ELSE Unknown

\* base_meta of chunk i, then base_meta.update(clean_custom_metadata)
ChunkRecord(d, i, ts, call, content, person_info, metadata) ==
    [id |-> <<d, i, ts>>,
         call |-> call,
         content |-> content.text,
         document_id |-> IF metadata.document_id # Absent THEN metadata.document_id
                         ELSE StrV(d),
         chunk_index |-> IF metadata.chunk_index # AbsentIndex THEN metadata.chunk_index
                         ELSE i,
         person_name |-> person_info.name,
         person_name_normalized |-> person_info.name_normalized,
         isolation_key |-> DocStr(d) \o <<"_">> \o NameKey(person_info)]

\* ---------------------------------------------------------- vector store
\* the collection: a sequence of records in insertion order, ids unique
StoreIds(st) == {st[j].id : j \in 1..Len(st)}

\* collection.delete(where={"document_id": {"$eq": value}})
StoreDeleteWhere(st, value) ==
    LET keep(r) == r.document_id # value IN SelectSeq(st, keep)

\* collection.add(ids, ...): a record whose id is in the collection already
\* is skipped, the others are appended
RECURSIVE StoreAdd(_, _)
StoreAdd(st, recs) ==
    IF recs = <<>> THEN st
    ELSE StoreAdd(IF Head(recs).id \in StoreIds(st) THEN st ELSE Append(st, Head(recs)),
                  Tail(recs))

\* collection.count()
StoreCount(st) == Len(st)

\* ------------------------------------------------- index_document
\* the chunk records of one call: chunk i of the content is record i
CallRecords(d, ts, call, content, metadata) ==
    LET pi == ExtractPersonInformation(content, metadata)
    IN  [j \in 1..content.nsub |-> ChunkRecord(d, j - 1, ts, call, content, pi, metadata)]

\* the three store-side steps of index_document, after the empty-content
\* check: delete the document's old chunks (a failure is only logged),
\* chunk, embed, add.  env says which collaborator raises in this call.
IndexAfterDelete(st, d, env) ==
    IF env.delete_raises THEN st ELSE StoreDeleteWhere(st, StrV(d))

\* EmbeddingService.index_document(str(d), content, metadata) at clock
\* second ts, as call number `call`: [ret, store, submitted]
IndexDocument(st, d, ts, call, content, metadata, env) ==
    IF content.blank THEN [ret |-> FALSE, store |-> st, submitted |-> <<>>]
    ELSE LET st1 == IndexAfterDelete(st, d, env)
             recs == CallRecords(d, ts, call, content, metadata)
         IN  IF recs = <<>> THEN [ret |-> FALSE, store |-> st1, submitted |-> <<>>]
             ELSE IF env.embed_raises THEN [ret |-> FALSE, store |-> st1, submitted |-> <<>>]
             ELSE IF env.add_raises THEN [ret |-> FALSE, store |-> st1, submitted |-> recs]
             ELSE [ret |-> TRUE, store |-> StoreAdd(st1, recs), submitted |-> recs]

\* ------------------------------------------------------------- scores
\* scores are integers in units of 1/SCALE: 1.0 is SCALE
SCALE == 1200
\* n hundredths, in score units
Cents(n) == n * (SCALE \div 100)

Min(a, b) == IF a < b THEN a ELSE b
Max(a, b) == IF a > b THEN a ELSE b

\* max(0.0, min(1.0, x))
Clamp01(x) == Max(0, Min(SCALE, x))

\* ----------------------------------------------- chunk texts and queries
\* what the scoring code reads from a stored chunk text and its metadata:
\* the vocabulary terms occurring in the lowercased text, its whitespace
\* tokens, the metadata keywords, chunk_type, the section title's words
\* and len(content)
ContentOf(c) ==
    CASE c = "c_py" ->
            [terms |-> {"python", "en"}, words |-> {"python", "en"},
             keywords |-> {"python"}, chunk_type |-> "skills",
             section |-> {"python"}, length |-> 180]
      [] c = "c_mid" ->
            [terms |-> {"python"}, words |-> {}, keywords |-> {},
             chunk_type |-> "experience", section |-> {}, length |-> 80]
      [] c = "c_proj" ->
            [terms |-> {"python", "en"}, words |-> {"en"}, keywords |-> {"python"},
             chunk_type |-> "project", section |-> {"python", "en"}, length |-> 100]
      [] OTHER ->
            [terms |-> {}, words |-> {}, keywords |-> {},
             chunk_type |-> "general", section |-> {}, length |-> 41]

Contents == {"c_py", "c_mid", "c_proj", "c_short"}

\* a query string: its whitespace tokens, and the list _extract_keywords
\* finds in it ("python" is a term of two domains, so it is listed twice);
\* "q_none" is query=None
QueryOf(q) ==
    CASE q = "q_py" ->
            [given |-> TRUE, words |-> {"python", "en"}, keywords |-> <<"python", "python">>]
      [] q = "q_en" -> [given |-> TRUE, words |-> {"en"}, keywords |-> <<>>]
      [] OTHER -> [given |-> FALSE, words |-> {}, keywords |-> <<>>]

Queries == {"q_py", "q_en", "q_none"}

\* len(word) > 2
LongWord(w) == w # "en"

\* ------------------------------------------------------ person isolation
\* _is_same_person(metadata, target_person)
IsSamePerson(meta, target_person) ==
    IF target_person = <<>> THEN TRUE
    ELSE LET person_name == meta.person_name
             target_normalized == NormalizeName(target_person)
             parts == Split(target_person)
         IN  \/ Lower(person_name) = Lower(target_person)
             \/ meta.person_name_normalized = target_normalized
             \/ Contains(Lower(person_name), Lower(target_person))
             \/ \E j \in 1..Len(parts) :
                    Len(parts[j]) > 2 /\ Contains(Lower(person_name), Lower(parts[j]))

\* the where-filter of _build_isolation_filters, evaluated on one record:
\* the caller's document filter, and for a target person the $or of name
\* equality, normalised-name equality, first name inside person_name,
\* normalised name inside isolation_key
MatchesFilters(meta, filter_document, target_person) ==
    /\ filter_document = Absent \/ meta.document_id = filter_document
    /\ \/ target_person = <<>>
       \/ meta.person_name = target_person
       \/ meta.person_name_normalized = NormalizeName(target_person)
       \/ Contains(meta.person_name, Split(target_person)[1])
       \/ Contains(meta.isolation_key, NormalizeName(target_person))

\* target_person.split()[0] raises IndexError for a target of spaces only
FilterRaises(target_person) == target_person # <<>> /\ Split(target_person) = <<>>

\* ----------------------------------------------------------- sorting
\* list.sort(key=..., reverse=True): descending, equal keys keep their order
RECURSIVE InsertDesc(_, _)
InsertDesc(sorted, x) ==
    IF sorted = <<>> THEN <<x>>
    ELSE IF Head(sorted).key >= x.key
         THEN <<Head(sorted)>> \o InsertDesc(Tail(sorted), x)
         ELSE <<x>> \o sorted

RECURSIVE SortKeyed(_)
SortKeyed(xs) ==
    IF xs = <<>> THEN <<>>
    ELSE InsertDesc(SortKeyed(SubSeq(xs, 1, Len(xs) - 1)), xs[Len(xs)])

\* xs sorted by keys[j], the key of xs[j]
SortDesc(xs, keys) ==
    LET sorted == SortKeyed([j \in 1..Len(xs) |-> [key |-> keys[j], item |-> xs[j]]])
    IN  [j \in 1..Len(sorted) |-> sorted[j].item]

\* xs[:n]
Take(xs, n) == SubSeq(xs, 1, Min(n, Len(xs)))

\* -------------------------------------------------- search strategies
\* _format_search_results: one result per record the store returned
FormatResult(rec, distance) ==
    [rec |-> rec,
     similarity_score |-> Clamp01(SCALE - distance),
     distance |-> distance,
     search_strategy |-> "semantic_isolated",
     search_strategies |-> <<"semantic_isolated">>,
     multi_strategy |-> FALSE,
     isolation_valid |-> FALSE,
     scored |-> FALSE,
     final_score |-> 0]

\* collection.query(n_results, where): the matching records, nearest first
SemanticSearch(st, dist, n_results, filter_document, target_person) ==
    LET match(j) == MatchesFilters(st[j], filter_document, target_person)
        idx == SelectSeq([j \in 1..Len(st) |-> j], match)
        ranked == Take(SortDesc(idx, [j \in 1..Len(idx) |-> 0 - dist[idx[j]]]), n_results)
    IN  [j \in 1..Len(ranked) |-> FormatResult(st[ranked[j]], dist[ranked[j]])]

\* the keyword and word matches of one stored text against the query
RECURSIVE KeywordMatches(_, _)
KeywordMatches(c, kws) ==
    IF kws = <<>> THEN 0
    ELSE (IF Head(kws) \in c.keywords THEN 2 ELSE 0)
         + (IF Head(kws) \in c.terms THEN 1 ELSE 0)
         + KeywordMatches(c, Tail(kws))

WordMatches(c, q) == Cardinality({w \in q.words \cap c.terms : LongWord(w)})

\* min(1.0, total_matches / (len(query_keywords) + len(query_words)))
KeywordScore(c, q) ==
    Min(SCALE, ((KeywordMatches(c, q.keywords) + WordMatches(c, q)) * SCALE)
                   \div (Len(q.keywords) + Cardinality(q.words)))

KeywordResult(rec, q) ==
    [rec |-> rec,
     similarity_score |-> (KeywordScore(ContentOf(rec.content), q) * 8) \div 10,
     distance |-> SCALE - KeywordScore(ContentOf(rec.content), q),
     search_strategy |-> "keyword_isolated",
     search_strategies |-> <<"keyword_isolated">>,
     multi_strategy |-> FALSE,
     isolation_valid |-> TRUE,
     scored |-> FALSE,
     final_score |-> 0]

\* results.sort(key=lambda x: x["similarity_score"], reverse=True)
SortBySimilarity(results) ==
    SortDesc(results, [j \in 1..Len(results) |-> results[j].similarity_score])

\* _keyword_search_with_isolation: collection.get(where), the person check
\* on every record, the match score, best top_k
KeywordSearch(st, q, target_person, top_k, filter_document) ==
    LET hit(rec) ==
            /\ MatchesFilters(rec, filter_document, target_person)
            /\ IsSamePerson(rec, target_person)
            /\ KeywordMatches(ContentOf(rec.content), q.keywords)
                  + WordMatches(ContentOf(rec.content), q) > 0
        hits == SelectSeq(st, hit)
        results == [j \in 1..Len(hits) |-> KeywordResult(hits[j], q)]
    IN  Take(SortBySimilarity(results), top_k)

\* ------------------------------------------------ validation and merge
\* a validation that marks the results and drops none
ValidateIsolation_KeepsAll(results, target_person) ==
    [j \in 1..Len(results) |->
        [results[j] EXCEPT !.isolation_valid = IsSamePerson(results[j].rec, target_person)]]

\* _validate_isolation
ValidateIsolation(results, target_person) ==
    IF target_person = <<>>
    THEN [j \in 1..Len(results) |-> [results[j] EXCEPT !.isolation_valid = TRUE]]
    ELSE LET valid(r) == IsSamePerson(r.rec, target_person)
             kept == SelectSeq(results, valid)
         IN  [j \in 1..Len(kept) |-> [kept[j] EXCEPT !.isolation_valid = TRUE]]

\* f"{document_id}_{chunk_index}_{person_name}"
MergeKey(r) == <<r.rec.document_id.v, r.rec.chunk_index, r.rec.person_name>>

\* a merge that keeps the first result of a key as it is
MergeInto_KeepsFirst(kept, r) ==
    IF \E j \in 1..Len(kept) : MergeKey(kept[j]) = MergeKey(r) THEN kept
    ELSE Append(kept, r)

\* one result folded into the results kept so far
MergeInto(kept, r) ==
    IF \E j \in 1..Len(kept) : MergeKey(kept[j]) = MergeKey(r)
    THEN LET j == CHOOSE i \in 1..Len(kept) : MergeKey(kept[i]) = MergeKey(r)
             e == kept[j]
             strategies ==
                 IF \E i \in 1..Len(e.search_strategies) :
                        e.search_strategies[i] = r.search_strategy
                 THEN e.search_strategies
                 ELSE Append(e.search_strategies, r.search_strategy)
         IN  [kept EXCEPT ![j] =
                 [e EXCEPT !.similarity_score = Max(e.similarity_score, r.similarity_score),
                           !.search_strategies = strategies,
                           !.multi_strategy = Len(strategies) > 1]]
    ELSE Append(kept, r)

RECURSIVE MergeAll(_, _)
MergeAll(kept, rest) ==
    IF rest = <<>> THEN kept ELSE MergeAll(MergeInto(kept, Head(rest)), Tail(rest))

\* _merge_and_deduplicate_isolated_results
MergeAndDeduplicate(all_results) == SortBySimilarity(MergeAll(<<>>, all_results))

\* ------------------------------------------------------------ re-ranking
\* the score without the final clamp
FinalScore_Unclamped(raw) == raw

\* final_score = max(0.0, min(1.0, final_score))
FinalScore(raw) == Clamp01(raw)

TypeBonus(chunk_type) ==
    CASE chunk_type = "skills" -> Cents(15)
      [] chunk_type = "experience" -> Cents(12)
      [] chunk_type = "project" -> Cents(10)
      [] chunk_type \in {"education", "certification"} -> Cents(8)
      [] OTHER -> 0

IsolationBonus(person_name, target_person) ==
    IF target_person = <<>> THEN 0
    ELSE (IF person_name # <<>> /\ Contains(Lower(person_name), Lower(target_person))
          THEN Cents(20) ELSE 0)
         + (IF Lower(person_name) = Lower(target_person) THEN Cents(10) ELSE 0)

\* if content_length < 100: -0.05 elif content_length < 50: -0.10
LengthPenalty(content_length) ==
    IF content_length < 100 THEN 0 - Cents(5)
    ELSE IF content_length < 50 THEN 0 - Cents(10)
    ELSE 0

\* the set of the seq kws
SeqSet(kws) == {kws[j] : j \in 1..Len(kws)}

\* the weighted sum of one result, before the clamp
RawScore(r, q, target_person) ==
    LET c == ContentOf(r.rec.content)
        word_score ==
            (Cardinality(q.words \cap c.words) * SCALE) \div Max(Cardinality(q.words), 1)
        query_keywords == SeqSet(q.keywords)
        keyword_score ==
            IF query_keywords # {}
            THEN (Cardinality(query_keywords \cap c.keywords) * SCALE)
                     \div Max(Cardinality(query_keywords), 1)
            ELSE 0
        section_bonus == Cents(3) * Cardinality(q.words \cap c.section)
    IN  (r.similarity_score * 50) \div 100
        + (word_score * 15) \div 100
        + (keyword_score * 10) \div 100
        + IsolationBonus(r.rec.person_name, target_person)
        + TypeBonus(c.chunk_type)
        + (IF r.multi_strategy THEN Cents(5) ELSE 0)
        + section_bonus
        + LengthPenalty(c.length)

RerankOne(r, q, target_person) ==
    [r EXCEPT !.scored = TRUE, !.final_score = FinalScore(RawScore(r, q, target_person))]

\* result.get("final_score", result["similarity_score"])
ScoreOf(r) == IF r.scored THEN r.final_score ELSE r.similarity_score

SortByScore(results) == SortDesc(results, [j \in 1..Len(results) |-> ScoreOf(results[j])])

\* _rerank_with_isolation_bonus
RerankWithIsolationBonus(q, results, target_person) ==
    SortByScore([j \in 1..Len(results) |-> RerankOne(results[j], q, target_person)])

\* ---------------------------------------------- search_similar_documents
\* a store that is never taken for empty
CollectionEmpty_Never(total_chunks) == FALSE

\* stats.get("total_chunks", 0) == 0
CollectionEmpty(total_chunks) == total_chunks = 0

\* get_collection_stats()["total_chunks"]: 0 when the store raises
TotalChunks(st, env) == IF env.fail = "stats" THEN 0 ELSE StoreCount(st)

\* what a call that returns [] before any strategy ran leaves behind
EarlyReturn(embedded, raised) ==
    [results |-> <<>>, embedded |-> embedded, queried |-> FALSE,
     raised_inside |-> raised, candidates |-> <<>>]

\* the semantic strategy: its own try/except turns a failure into []
SemanticResults(st, a, env) ==
    IF env.fail \in {"semantic", "store"} THEN <<>>
    ELSE SemanticSearch(st, env.dist, a.top_k * 2, a.filter_document, a.target_person)

\* a keyword strategy that is given up when the semantic one failed
KeywordResults_LostWithSemantic(st, a, env) ==
    IF a.enable_hybrid_search /\ QueryOf(a.query).given /\ env.fail = "none"
    THEN KeywordSearch(st, QueryOf(a.query), a.target_person, a.top_k, a.filter_document)
    ELSE <<>>

\* the keyword strategy: run if enabled and a query string was given, a
\* failure turned into []
KeywordResults(st, a, env) ==
    IF a.enable_hybrid_search /\ QueryOf(a.query).given /\ env.fail \notin {"keyword", "store"}
    THEN KeywordSearch(st, QueryOf(a.query), a.target_person, a.top_k, a.filter_document)
    ELSE <<>>

\* what follows the strategies: [] when they found nothing, else
\* validation, merge, re-ranking and the final cut
ProcessCandidates(results, a) ==
    LET q == QueryOf(a.query)
        validated == ValidateIsolation(results, a.target_person)
        merged == MergeAndDeduplicate(validated)
        reranked ==
            IF a.enable_reranking /\ q.given /\ merged # <<>>
            THEN RerankWithIsolationBonus(q, merged, a.target_person)
            ELSE merged
        passes(r) == ScoreOf(r) >= a.threshold
    IN  IF results = <<>> THEN <<>>
        ELSE Take(SelectSeq(reranked, passes), a.top_k)

\* the two strategies and what follows them; an exception of a later stage
\* reaches the outer except, which returns []
SearchStrategies(st, a, env) ==
    LET results == SemanticResults(st, a, env) \o KeywordResults(st, a, env)
        later_raises == env.fail = "later" /\ results # <<>>
    IN  [results |-> IF later_raises THEN <<>> ELSE ProcessCandidates(results, a),
         embedded |-> ~a.has_embedding,
         queried |-> TRUE,
         raised_inside |-> env.fail \in {"semantic", "keyword", "store"} \/ later_raises,
         candidates |-> results]

\* search_similar_documents(query, query_embedding, top_k, threshold,
\* filter_metadata, target_person, enable_reranking, enable_hybrid_search)
SearchSimilarDocuments(st, a, env) ==
    IF CollectionEmpty(TotalChunks(st, env)) THEN EarlyReturn(FALSE, env.fail = "stats")
    ELSE IF FilterRaises(a.target_person) THEN EarlyReturn(FALSE, TRUE)
    ELSE IF ~a.has_embedding /\ ~QueryOf(a.query).given THEN EarlyReturn(FALSE, FALSE)
    ELSE IF ~a.has_embedding /\ env.fail = "embed_empty" THEN EarlyReturn(TRUE, FALSE)
    ELSE IF ~a.has_embedding /\ env.fail = "embed_raises" THEN EarlyReturn(TRUE, TRUE)
    ELSE SearchStrategies(st, a, env)

\* ------------------------------------------------------------------ state
VARIABLES
    store,      \* the ChromaDB collection: records in insertion order
    clock,      \* the second datetime.now() shows
    ncalls,     \* index_document calls made so far
    last,       \* the latest index_document call: arguments, outcome
    documents,  \* rows of the documents table
    proc,       \* each process_document / delete request: its position
    srch,       \* the latest search_similar_documents call
    rr,         \* the latest _rerank_with_isolation_bonus call
    rt,         \* the latest _retrieve_relevant_documents call
    ck,         \* the latest TextProcessor.chunk_text call
    nm,         \* the latest name normalisation
    mg,         \* the latest _merge_and_deduplicate_isolated_results call
    eb,         \* the latest embedding batch of index_document
    cb,         \* the latest _chunk_text_with_personal_info call
    px,         \* the _extract_pdf_content call under way
    rq          \* the OpenRouterService._make_request call under way

vars == <<store, clock, ncalls, last, documents, proc, srch, rr, rt, ck, nm, mg,
          eb, cb, px, rq>>

\* documents indexed in the model
DocIds == {1, 2}

\* what a call that raises nothing and a call with one failing collaborator see
NoFailure == [delete_raises |-> FALSE, embed_raises |-> FALSE, add_raises |-> FALSE]
Envs ==
    {NoFailure,
     [NoFailure EXCEPT !.delete_raises = TRUE],
     [NoFailure EXCEPT !.embed_raises = TRUE],
     [NoFailure EXCEPT !.add_raises = TRUE]}

\* contents handed to index_document: blank or not, the number of chunks
\* _create_isolated_chunks cuts it into, the name the patterns find in it
IndexContents ==
    [blank : {FALSE}, nsub : 0..2, name : {AliDup, NoName}, text : {"c_py"}]
        \cup [blank : {TRUE}, nsub : {0}, name : {NoName}, text : {"c_py"}]

NoCall == [n |-> 0, d |-> 0, ret |-> FALSE, submitted |-> <<>>]

NoArgs ==
    [query |-> "q_none", has_embedding |-> FALSE, top_k |-> 1, threshold |-> 0,
     filter_document |-> Absent, target_person |-> <<>>,
     enable_reranking |-> FALSE, enable_hybrid_search |-> FALSE]

NoSearch ==
    [done |-> FALSE, args |-> NoArgs, empty |-> FALSE, fail |-> "none",
     out |-> EarlyReturn(FALSE, FALSE)]
NoRerank == [done |-> FALSE, query |-> "q_none", target_person |-> <<>>, raw |-> 0, results |-> <<>>,
     length_penalty |-> 0]

NoRetrieve ==
    [done |-> FALSE, top_k |-> 1, similarity_threshold |-> 0, candidates |-> <<>>,
     docs |-> <<>>]

NoChunking == [done |-> FALSE, sentences |-> <<>>, chunk_size |-> 0, overlap |-> 0, chunks |-> <<>>]

NoNormalize == [done |-> FALSE, name |-> <<>>, once |-> <<>>, twice |-> <<>>, target |-> <<>>]

NoMerge == [done |-> FALSE, all_results |-> <<>>, merged |-> <<>>]

NoBatch ==
    [done |-> FALSE, chunks |-> <<>>, ret |-> FALSE, embedded |-> FALSE, added |-> FALSE,
     chunk_ids |-> <<>>, chunk_texts |-> <<>>, chunk_metadata |-> <<>>, embeddings |-> <<>>]

NoBuild == [done |-> FALSE, info |-> "none", paragraphs |-> <<>>, chunks |-> <<>>]

NoExtraction ==
    [pc |-> "idle", available |-> {}, content_parts |-> <<>>, tried |-> <<>>,
     returned |-> FALSE, raised |-> FALSE, content |-> <<>>]

NoRequest ==
    [pc |-> "idle", max_retries |-> 0, retries |-> 0, attempts |-> <<>>,
     returned |-> FALSE, raised |-> FALSE]

\* datetime.now() moves to the next second
Tick ==
    /\ clock < MaxClock
    /\ clock' = clock + 1
    /\ UNCHANGED <<store, ncalls, last, documents, proc, srch, rr, rt, ck, nm, mg, eb, cb, px, rq>>

\* a caller invokes EmbeddingService.index_document(str(d), content, metadata)
IndexCall(d, content, metadata, env) ==
    /\ ncalls < MaxCalls
    /\ LET out == IndexDocument(store, d, clock, ncalls + 1, content, metadata, env)
       IN  /\ store' = out.store
           /\ last' = [n |-> ncalls + 1, d |-> d, ret |-> out.ret,
                       submitted |-> out.submitted]
    /\ ncalls' = ncalls + 1
    /\ UNCHANGED <<clock, documents, proc, srch, rr, rt, ck, nm, mg, eb, cb, px, rq>>

IndexInit ==
    /\ store = <<>>
    /\ clock = 0
    /\ ncalls = 0
    /\ last = NoCall
    /\ documents = <<>>
    /\ proc = <<>>
    /\ srch = NoSearch
    /\ rr = NoRerank
    /\ rt = NoRetrieve
    /\ ck = NoChunking
    /\ nm = NoNormalize
    /\ mg = NoMerge
    /\ eb = NoBatch
    /\ cb = NoBuild
    /\ px = NoExtraction
    /\ rq = NoRequest

IndexNext ==
    \/ Tick
    \/ \E d \in DocIds, content \in IndexContents, env \in Envs :
          \E metadata \in {NoCustom, PipelineMetadata(d, 0, <<>>),
                           PipelineMetadata(d, 0, AliMar)} :
              IndexCall(d, content, metadata, env)

\* any sequence of index_document calls, as the service's callers make them
SpecIndex == IndexInit /\ [][IndexNext]_vars

Range(f) == {f[j] : j \in DOMAIN f}

\* the records of the store that carry document d, as str or as int
RecordsOf(st, d) == {st[j] : j \in {k \in 1..Len(st) : st[k].document_id.v = d}}

\* C3 (as claimed): once index_document(d, content) has returned True, the
\* store's records of document d are exactly the records of that call
C3_LatestCallOnly ==
    (last.n > 0 /\ last.ret) => RecordsOf(store, last.d) = Range(last.submitted)

\* ------------------------------------------------- DocumentService
\* chunks _chunk_text_with_personal_info cuts a document into
MaxChunks == 2

\* concurrent process_document requests, each with its own DocumentService
\* and database session
Procs == {1, 2}

\* an uploaded file: whether _validate_file accepts it, and the MD5 of its
\* bytes (a missing file has none; only contents over the limit have hash 3)
Files ==
    [kind : {"ok", "bad_ext"}, hash : {1, 2}]
        \cup {[kind |-> "too_large", hash |-> 3], [kind |-> "missing", hash |-> 0]}

NoFile == [kind |-> "missing", hash |-> 0]
NoResult == [returned |-> FALSE, success |-> FALSE, document_id |-> 0, error |-> ""]

\* the embedding service handed to DocumentService(db, embedding_service):
\* none, one whose model is loaded, one whose model is not
Services == {"none", "ready", "uninitialised"}

IdleProc ==
    [pc |-> "idle", file |-> NoFile, svc |-> "none", doc |-> 0, n |-> 0, k |-> 0,
     succ |-> 0, rets |-> <<>>, subs |-> <<>>, dupOf |-> 0, result |-> NoResult]

\* the chunk contents the pipeline hands to index_document: never blank,
\* cut into one chunk or (under 20 characters) into none; name is the name
\* the patterns of _extract_person_information find in the chunk text
PipelineContents ==
    [blank : {FALSE}, nsub : {0, 1}, name : {AliDup, NoName}, text : {"c_py"}]

\* the name _extract_personal_info finds in the text of a file: the file
\* with hash 1 is the CV of Ali Dup, the other texts name nobody
PersonalNameOf(f) == IF f.hash = 1 THEN AliDup ELSE NoName

\* _validate_file: exists, within MAX_FILE_SIZE, supported extension
ValidateFile(f) == f.kind = "ok"

\* rows a session's query sees: the committed ones
Visible(row) == row.state = "committed"

\* a duplicate check that never finds the stored document
CheckDuplicate_NeverFinds(docs, checksum) == 0

\* _check_duplicate: the id of a document row with this file_hash, 0 for None
CheckDuplicate(docs, checksum) ==
    IF \E i \in 1..Len(docs) : Visible(docs[i]) /\ docs[i].file_hash = checksum
    THEN CHOOSE i \in 1..Len(docs) : Visible(docs[i]) /\ docs[i].file_hash = checksum
    ELSE 0

\* unique=True on Document.file_hash: a flush or commit of a row whose
\* hash a committed row holds raises IntegrityError
HashTaken(docs, checksum) ==
    \E i \in 1..Len(docs) : docs[i].state = "committed" /\ docs[i].file_hash = checksum

Returned(p, success, document_id, error) ==
    [proc[p] EXCEPT !.pc = "done", !.succ = 0, !.rets = <<>>, !.subs = <<>>,
                    !.result = [returned |-> TRUE, success |-> success,
                                document_id |-> document_id, error |-> error]]

\* process_document up to the duplicate check: validation, metadata
\* (checksum), _check_duplicate
PD_Start(p, f, svc) ==
    /\ proc[p].pc = "idle"
    /\ LET me == [proc[p] EXCEPT !.file = f,
                      !.dupOf = IF f.kind # "missing" /\ HashTaken(documents, f.hash)
                                THEN CHOOSE i \in 1..Len(documents) :
                                        /\ documents[i].state = "committed"
                                        /\ documents[i].file_hash = f.hash
                                ELSE 0]
           dup == CheckDuplicate(documents, f.hash)
       IN  proc' = [proc EXCEPT ![p] =
                IF ~ValidateFile(f)
                THEN [me EXCEPT !.pc = "done",
                         !.result = [returned |-> TRUE, success |-> FALSE,
                                     document_id |-> 0, error |-> "invalid"]]
                ELSE IF dup # 0
                THEN [me EXCEPT !.pc = "done",
                         !.result = [returned |-> TRUE, success |-> FALSE,
                                     document_id |-> dup, error |-> "duplicate"]]
                ELSE [me EXCEPT !.pc = "checked", !.svc = svc]]
    /\ UNCHANGED <<store, clock, ncalls, last, documents, srch, rr, rt, ck, nm, mg, eb, cb, px, rq>>

\* content extraction, preprocessing, chunking into n chunks (the first
\* one the personal-information header when a name was found),
\* _create_document (PENDING, flush) and _save_chunks
PD_Create(p, n, extracted) ==
    /\ proc[p].pc = "checked"
    /\ PersonalNameOf(proc[p].file) # <<>> => n >= 1
    /\ IF ~extracted \/ HashTaken(documents, proc[p].file.hash)
       THEN /\ proc' = [proc EXCEPT ![p] = Returned(p, FALSE, 0, "error")]
            /\ UNCHANGED documents
       ELSE /\ documents' = Append(documents,
                    [file_hash |-> proc[p].file.hash, embeddings_status |-> "PENDING",
                     state |-> "flushed", chunk_rows |-> n])
            /\ proc' = [proc EXCEPT ![p] =
                    [proc[p] EXCEPT !.doc = Len(documents) + 1, !.n = n,
                        !.pc = IF proc[p].svc = "none" THEN "embedded" ELSE "created"]]
    /\ UNCHANGED <<store, clock, ncalls, last, srch, rr, rt, ck, nm, mg, eb, cb, px, rq>>

\* an indexing that starts without marking the document PROCESSING
PD_BeginEmbeddings_SkipsProcessing(p) ==
    /\ proc[p].pc = "created"
    /\ documents' = [documents EXCEPT ![proc[p].doc].state = "committed"]
    /\ proc' = [proc EXCEPT ![p].pc = "processing"]
    /\ UNCHANGED <<store, clock, ncalls, last, srch, rr, rt, ck, nm, mg, eb, cb, px, rq>>

\* _generate_embeddings_sync: mark PROCESSING and commit
PD_BeginEmbeddings(p) ==
    /\ proc[p].pc = "created"
    /\ IF HashTaken(documents, proc[p].file.hash)
       THEN /\ documents' = [documents EXCEPT ![proc[p].doc].state = "rolledback"]
            /\ proc' = [proc EXCEPT ![p] = Returned(p, FALSE, 0, "error")]
       ELSE /\ documents' = [documents EXCEPT
                    ![proc[p].doc].embeddings_status = "PROCESSING",
                    ![proc[p].doc].state = "committed"]
            /\ proc' = [proc EXCEPT ![p].pc = "processing"]
    /\ UNCHANGED <<store, clock, ncalls, last, srch, rr, rt, ck, nm, mg, eb, cb, px, rq>>

\* a service check that lets every attached service through
PD_CheckService_AnyService(p) ==
    /\ proc[p].pc = "processing"
    /\ proc' = [proc EXCEPT ![p].pc = "indexing", ![p].k = 1]
    /\ UNCHANGED <<store, clock, ncalls, last, documents, srch, rr, rt, ck, nm, mg, eb, cb, px, rq>>

\* _generate_embeddings_sync: the service's model is missing, the
\* re-initialisation it calls does not exist, the document is marked FAILED
PD_CheckService(p) ==
    /\ proc[p].pc = "processing"
    /\ IF proc[p].svc = "uninitialised"
       THEN /\ documents' = [documents EXCEPT ![proc[p].doc].embeddings_status = "FAILED"]
            /\ proc' = [proc EXCEPT ![p].pc = "embedded"]
       ELSE /\ proc' = [proc EXCEPT ![p].pc = "indexing", ![p].k = 1]
            /\ UNCHANGED documents
    /\ UNCHANGED <<store, clock, ncalls, last, srch, rr, rt, ck, nm, mg, eb, cb, px, rq>>

\* chunk k of the upload of p is the personal-information header
IsHeaderChunk(p, k) == PersonalNameOf(proc[p].file) # <<>> /\ k = 1

\* the student_name of the metadata of chunk k: the header chunk has none,
\* the other chunks carry the document's name
StudentName(p, k) ==
    IF IsHeaderChunk(p, k) THEN <<>> ELSE PersonalNameOf(proc[p].file)

\* the name the patterns of _extract_person_information find in the text of
\* chunk k: no line of the header chunk matches one of them, the other
\* chunks name whom the file names
ChunkTextName(p, k) ==
    IF IsHeaderChunk(p, k) THEN <<>> ELSE PersonalNameOf(proc[p].file)

\* one turn of the loop over the chunks: index_document for chunk k, its
\* return value dropped, successful_embeddings += 1
PD_IndexChunk(p, content, env) ==
    /\ proc[p].pc = "indexing"
    /\ proc[p].k <= proc[p].n
    /\ content.name = ChunkTextName(p, proc[p].k)
    /\ LET d == proc[p].doc
           out == IndexDocument(store, d, clock, proc[p].k, content,
                                PipelineMetadata(d, proc[p].k - 1,
                                                 StudentName(p, proc[p].k)), env)
       IN  /\ store' = out.store
           /\ proc' = [proc EXCEPT ![p].k = @ + 1, ![p].succ = @ + 1,
                                   ![p].rets = Append(@, out.ret),
                                   ![p].subs = Append(@, out.submitted)]
    /\ UNCHANGED <<clock, ncalls, last, documents, srch, rr, rt, ck, nm, mg, eb, cb, px, rq>>

\* a final status written while chunks are still waiting
PD_Finish_Early(p) ==
    /\ proc[p].pc = "indexing"
    /\ documents' = [documents EXCEPT ![proc[p].doc].embeddings_status =
                        IF proc[p].succ = 0 THEN "FAILED" ELSE "COMPLETED"]
    /\ proc' = [proc EXCEPT ![p].pc = "embedded"]
    /\ UNCHANGED <<store, clock, ncalls, last, srch, rr, rt, ck, nm, mg, eb, cb, px, rq>>

\* after the loop: FAILED when no chunk counted, else COMPLETED; commit
PD_Finish(p) ==
    /\ proc[p].pc = "indexing"
    /\ proc[p].k > proc[p].n
    /\ documents' = [documents EXCEPT ![proc[p].doc].embeddings_status =
                        IF proc[p].succ = 0 THEN "FAILED" ELSE "COMPLETED"]
    /\ proc' = [proc EXCEPT ![p].pc = "embedded"]
    /\ UNCHANGED <<store, clock, ncalls, last, srch, rr, rt, ck, nm, mg, eb, cb, px, rq>>

\* process_document: the final commit and the success result
PD_Return(p) ==
    /\ proc[p].pc = "embedded"
    /\ LET d == proc[p].doc
       IN  IF documents[d].state = "flushed" /\ HashTaken(documents, proc[p].file.hash)
           THEN /\ documents' = [documents EXCEPT ![d].state = "rolledback"]
                /\ proc' = [proc EXCEPT ![p] = Returned(p, FALSE, 0, "error")]
           ELSE /\ documents' = [documents EXCEPT ![d].state = "committed"]
                /\ proc' = [proc EXCEPT ![p] = Returned(p, TRUE, d, "")]
    /\ UNCHANGED <<store, clock, ncalls, last, srch, rr, rt, ck, nm, mg, eb, cb, px, rq>>

\* the request that uploaded document d has returned
Settled(d) == \A p \in Procs : proc[p].doc = d => proc[p].pc = "done"

\* DocumentService.delete_document(d, user) on a stored document, returning
\* True.  Without an embedding service (the DELETE endpoint builds
\* DocumentService(db)) the store is not touched; with one, the attribute
\* lookup embedding_service.delete_document raises AttributeError
\* (EmbeddingService defines no such method), which is logged: the store is
\* not touched either.
DeleteDocument(d, with_service) ==
    /\ d \in 1..Len(documents)
    /\ documents[d].state = "committed"
    /\ Settled(d)
    /\ documents' = [documents EXCEPT ![d].state = "deleted"]
    /\ store' = IF with_service THEN store ELSE store
    /\ UNCHANGED <<clock, ncalls, last, proc, srch, rr, rt, ck, nm, mg, eb, cb, px, rq>>

\* a client uploads a file once the upload before it has been answered
Upload(p, f, svc) ==
    /\ \A q \in Procs \ {p} : proc[q].pc \in {"idle", "done"}
    /\ PD_Start(p, f, svc)

Init ==
    /\ store = <<>>
    /\ clock = 0
    /\ ncalls = 0
    /\ last = NoCall
    /\ documents = <<>>
    /\ proc = [p \in Procs |-> IdleProc]
    /\ srch = NoSearch
    /\ rr = NoRerank
    /\ rt = NoRetrieve
    /\ ck = NoChunking
    /\ nm = NoNormalize
    /\ mg = NoMerge
    /\ eb = NoBatch
    /\ cb = NoBuild
    /\ px = NoExtraction
    /\ rq = NoRequest

Next ==
    \/ Tick
    \/ \E p \in Procs, f \in Files, svc \in Services : Upload(p, f, svc)
    \/ \E p \in Procs, n \in 0..MaxChunks, extracted \in BOOLEAN : PD_Create(p, n, extracted)
    \/ \E p \in Procs : PD_BeginEmbeddings(p)
    \/ \E p \in Procs : PD_CheckService(p)
    \/ \E p \in Procs, content \in PipelineContents, env \in Envs :
          PD_IndexChunk(p, content, env)
    \/ \E p \in Procs : PD_Finish(p)
    \/ \E p \in Procs : PD_Return(p)
    \/ \E d \in DocIds, with_service \in BOOLEAN : DeleteDocument(d, with_service)

\* the indexing pipeline and document deletion, one request after another
Spec == Init /\ [][Next]_vars

\* the status of the document request p created
StatusOf(p) == documents[proc[p].doc].embeddings_status

\* request p has left the loop over its n >= 1 chunks and set the final status
LoopEnded(p) == proc[p].pc = "embedded" /\ proc[p].n >= 1 /\ proc[p].k > proc[p].n

\* C4 (as claimed): after delete_document(d, user) has returned True no
\* record of document d remains in the vector store
C4_DeleteCascades ==
    \A d \in 1..Len(documents) :
        documents[d].state = "deleted" => RecordsOf(store, d) = {}

\* the answer the claim gives for a duplicate of stored document dupOf: not
\* a success, the stored document's id, the duplicate message, no document
\* row and no chunk rows created, no call into the vector store
DuplicateAnswer(p) ==
    /\ proc[p].result = [returned |-> TRUE, success |-> FALSE,
                         document_id |-> proc[p].dupOf, error |-> "duplicate"]
    /\ proc[p].doc = 0
    /\ proc[p].k = 0

C6_AllFailedIsFailed ==
    \A p \in Procs :
        LoopEnded(p) =>
            StatusOf(p) = (IF \E j \in 1..Len(proc[p].rets) : proc[p].rets[j]
                           THEN "COMPLETED" ELSE "FAILED")

\* C7 (as claimed): when the pipeline ends a document COMPLETED, every chunk
\* whose index_document call succeeded has its records in the store
C7_IndexedChunksStay ==
    \A p \in Procs :
        (LoopEnded(p) /\ StatusOf(p) = "COMPLETED") =>
            \A j \in 1..Len(proc[p].rets) :
                proc[p].rets[j] => Range(proc[p].subs[j]) \subseteq Range(store)

\* ------------------------------------------------- search specification
\* the stores the searches run on: documents 1..n, one chunk each, indexed
\* by index_document in that order
SearchContents ==
    [blank : {FALSE}, nsub : {1}, name : {AliDup, AliMar, NoName}, text : {"c_py"}]
        \cup [blank : {FALSE}, nsub : {1}, name : {AliDup}, text : {"c_short"}]

RECURSIVE StoresOf(_)
StoresOf(n) ==
    IF n = 0 THEN {<<>>}
    ELSE {IndexDocument(st, n, 0, 0, c, NoCustom, NoFailure).store :
              st \in StoresOf(n - 1), c \in SearchContents}

SearchStores == UNION {StoresOf(n) : n \in 0..MaxStore}

\* (query, query_embedding given) as the callers pair them
QueryModes ==
    {<<"q_py", FALSE>>, <<"q_en", FALSE>>, <<"q_py", TRUE>>, <<"q_none", TRUE>>,
     <<"q_none", FALSE>>}

SearchArgs ==
    {[query |-> qm[1], has_embedding |-> qm[2], top_k |-> k, threshold |-> th,
      filter_document |-> f, target_person |-> t,
      enable_reranking |-> rer, enable_hybrid_search |-> hyb] :
        qm \in QueryModes, k \in {1, 2}, th \in {0, SCALE \div 2},
        f \in {Absent, StrV(1)}, t \in TargetPersons,
        rer \in BOOLEAN, hyb \in BOOLEAN}

\* the collaborator that fails in one call: collection.count(), the
\* embedding model (no vector, or an exception), collection.query(),
\* collection.get(), the store rejecting the where-filter in both, or a
\* stage after the strategies
SearchFailures ==
    {"none", "stats", "embed_empty", "embed_raises", "semantic", "keyword", "store", "later"}

\* the distance of the query to each record
DistLevels == {0, SCALE}

Search(a, env) ==
    /\ ~srch.done
    /\ srch' = [done |-> TRUE, args |-> a, empty |-> StoreCount(store) = 0,
                fail |-> env.fail,
                out |-> SearchSimilarDocuments(store, a, env)]
    /\ UNCHANGED <<store, clock, ncalls, last, documents, proc, rr, rt, ck, nm, mg, eb, cb, px, rq>>

SearchInit ==
    /\ store \in SearchStores
    /\ clock = 0
    /\ ncalls = 0
    /\ last = NoCall
    /\ documents = <<>>
    /\ proc = <<>>
    /\ srch = NoSearch
    /\ rr = NoRerank
    /\ rt = NoRetrieve
    /\ ck = NoChunking
    /\ nm = NoNormalize
    /\ mg = NoMerge
    /\ eb = NoBatch
    /\ cb = NoBuild
    /\ px = NoExtraction
    /\ rq = NoRequest

SearchNext ==
    /\ ~srch.done
    /\ \E a \in SearchArgs, fail \in SearchFailures, dist \in [1..Len(store) -> DistLevels] :
           Search(a, [fail |-> fail, dist |-> dist])

SpecSearch == SearchInit /\ [][SearchNext]_vars

\* a stored chunk of another identified person than the target
DifferentPerson(meta, target_person) ==
    /\ meta.person_name # <<>>
    /\ Lower(meta.person_name) # Lower(target_person)
    /\ meta.person_name_normalized # NormalizeName(target_person)

\* C1: a search aimed at a person returns only results whose metadata pass
\* _is_same_person for that person, each marked isolation_valid
C1_ResultsAreTargetPerson ==
    (srch.done /\ srch.args.target_person # <<>>) =>
        \A j \in 1..Len(srch.out.results) :
            /\ IsSamePerson(srch.out.results[j].rec, srch.args.target_person)
            /\ srch.out.results[j].isolation_valid

\* a person search that returned results after validation dropped a
\* candidate the store's filter had let through
C1_Witness ==
    /\ srch.done
    /\ srch.args.target_person # <<>>
    /\ srch.out.results # <<>>
    /\ \E j \in 1..Len(srch.out.candidates) :
           ~IsSamePerson(srch.out.candidates[j].rec, srch.args.target_person)

\* C2: a search aimed at a person never returns a chunk of a different
\* identified person, whatever words the two names share
C2_NoOtherPerson ==
    (srch.done /\ srch.args.target_person # <<>>) =>
        \A j \in 1..Len(srch.out.results) :
            ~DifferentPerson(srch.out.results[j].rec, srch.args.target_person)

\* C9: on an empty collection the search returns [] and neither the
\* embedding model nor a store query was called
C9_EmptyCollection ==
    (srch.done /\ srch.empty) =>
        /\ srch.out.results = <<>>
        /\ ~srch.out.embedded
        /\ ~srch.out.queried

\* a text query without a vector, aimed at a person, on the empty store
C9_Witness ==
    /\ srch.done
    /\ srch.empty
    /\ srch.args.query = "q_py"
    /\ ~srch.args.has_embedding
    /\ srch.args.target_person = AliDup
    /\ srch.out.results = <<>>

\* ---------------------------------------------- re-ranking specification
\* one candidate as the merge hands it to the re-ranking: a chunk of
\* document 1 under any stored name and text, any similarity, found by one
\* strategy or by both
RerankDistances == {0, SCALE \div 4, SCALE \div 2, SCALE}

RerankCandidates ==
    {[FormatResult(ChunkRecord(1, 0, 0, 0, c, ExtractPersonInformation(c, NoCustom), NoCustom),
                   dist) EXCEPT !.multi_strategy = multi] :
        c \in [blank : {FALSE}, nsub : {1}, name : StoredNames, text : Contents],
        dist \in RerankDistances, multi \in BOOLEAN}

Rerank(query, cand, target_person) ==
    /\ ~rr.done
    /\ rr' = [done |-> TRUE, query |-> query, target_person |-> target_person,
              raw |-> RawScore(cand, QueryOf(query), target_person),
              results |-> RerankWithIsolationBonus(QueryOf(query), <<cand>>, target_person),
              length_penalty |-> LengthPenalty(ContentOf(cand.rec.content).length)]
    /\ UNCHANGED <<store, clock, ncalls, last, documents, proc, srch, rt, ck, nm, mg, eb, cb, px, rq>>

RerankInit ==
    /\ store = <<>>
    /\ clock = 0
    /\ ncalls = 0
    /\ last = NoCall
    /\ documents = <<>>
    /\ proc = <<>>
    /\ srch = NoSearch
    /\ rr = NoRerank
    /\ rt = NoRetrieve
    /\ ck = NoChunking
    /\ nm = NoNormalize
    /\ mg = NoMerge
    /\ eb = NoBatch
    /\ cb = NoBuild
    /\ px = NoExtraction
    /\ rq = NoRequest

RerankNext ==
    \E query \in {"q_py", "q_en"}, cand \in RerankCandidates, target_person \in TargetPersons :
        Rerank(query, cand, target_person)

SpecRerank == RerankInit /\ [][RerankNext]_vars

\* C8: the final_score the re-ranking writes lies in [0.0, 1.0]
C8_FinalScoreInUnitInterval ==
    rr.done =>
        \A j \in 1..Len(rr.results) :
            /\ rr.results[j].scored
            /\ rr.results[j].final_score >= 0
            /\ rr.results[j].final_score <= SCALE

\* bonuses that add up to more than 1.0, cut back to 1.0
C8_Witness ==
    /\ rr.done
    /\ rr.raw > SCALE
    /\ rr.results[1].final_score = SCALE

\* ------------------------------------------------ retrieval (RAG service)
\* self.fallback_threshold = 0.05
FallbackThreshold == Cents(5)

\* settings.RAG_SIMILARITY_THRESHOLD: the configured default, the getattr
\* default, and a setting below the fallback threshold
SimilarityThresholds == {Cents(60), Cents(10), Cents(2)}

\* doc_data of one search result
DocData(r) ==
    [content |-> r.rec.content, similarity_score |-> r.similarity_score,
     document_id |-> r.rec.document_id, chunk_index |-> r.rec.chunk_index]

\* the results with similarity_score >= threshold, in the search's order
AtLeast(results, threshold) ==
    LET passes(r) == r.similarity_score >= threshold IN SelectSeq(results, passes)

\* a last resort that returns nothing
LastResort_Nothing(results) == <<>>

\* sorted(results, key=similarity_score, reverse=True)[:2]
LastResort(results) == Take(SortBySimilarity(results), 2)

\* the adaptive thresholds of _retrieve_relevant_documents
SelectRelevant(results, similarity_threshold) ==
    LET primary == AtLeast(results, similarity_threshold)
        second ==
            IF Len(primary) < 2 /\ results # <<>>
            THEN AtLeast(results, FallbackThreshold)
            ELSE primary
        chosen ==
            IF second = <<>> /\ results # <<>> THEN LastResort(results) ELSE second
    IN  [j \in 1..Len(chosen) |-> DocData(chosen[j])]

\* search_similar_documents(query=query, top_k=top_k, threshold=0.0)
RetrieveArgs(query, top_k) ==
    [query |-> query, has_embedding |-> FALSE, top_k |-> top_k, threshold |-> 0,
     filter_document |-> Absent, target_person |-> <<>>,
     enable_reranking |-> TRUE, enable_hybrid_search |-> TRUE]

RetrieveDistLevels == {0, SCALE \div 2, SCALE}

RetrieveRelevantDocuments(query, top_k, similarity_threshold, env) ==
    /\ ~rt.done
    /\ LET results == SearchSimilarDocuments(store, RetrieveArgs(query, top_k), env).results
       IN  rt' = [done |-> TRUE, top_k |-> top_k,
                  similarity_threshold |-> similarity_threshold,
                  candidates |-> results,
                  docs |-> SelectRelevant(results, similarity_threshold)]
    /\ UNCHANGED <<store, clock, ncalls, last, documents, proc, srch, rr, ck, nm, mg, eb, cb, px, rq>>

RetrieveInit ==
    /\ store \in SearchStores
    /\ clock = 0
    /\ ncalls = 0
    /\ last = NoCall
    /\ documents = <<>>
    /\ proc = <<>>
    /\ srch = NoSearch
    /\ rr = NoRerank
    /\ rt = NoRetrieve
    /\ ck = NoChunking
    /\ nm = NoNormalize
    /\ mg = NoMerge
    /\ eb = NoBatch
    /\ cb = NoBuild
    /\ px = NoExtraction
    /\ rq = NoRequest

RetrieveNext ==
    /\ ~rt.done
    /\ \E query \in {"q_py", "q_en"}, top_k \in {1, 2, 3}, th \in SimilarityThresholds,
          fail \in SearchFailures, dist \in [1..Len(store) -> RetrieveDistLevels] :
           RetrieveRelevantDocuments(query, top_k, th, [fail |-> fail, dist |-> dist])

SpecRetrieve == RetrieveInit /\ [][RetrieveNext]_vars

\* the documents the claim names for a list of candidates
C10_Expected(cands, th) ==
    IF Len(AtLeast(cands, th)) >= 2 THEN AtLeast(cands, th)
    ELSE IF AtLeast(cands, Cents(5)) # <<>> THEN AtLeast(cands, Cents(5))
    ELSE Take(SortBySimilarity(cands), 2)

\* C10: retrieval returns at most top_k documents, at least one when the
\* search returned a candidate, and exactly: the candidates at or above the
\* primary threshold when there are two or more, else those at or above
\* 0.05, else the two candidates of highest similarity_score
C10_AdaptiveThresholds ==
    rt.done =>
        /\ Len(rt.docs) <= rt.top_k
        /\ rt.candidates # <<>> => rt.docs # <<>>
        /\ Len(rt.docs) = Len(C10_Expected(rt.candidates, rt.similarity_threshold))
        /\ \A j \in 1..Len(rt.docs) :
               rt.docs[j] = DocData(C10_Expected(rt.candidates, rt.similarity_threshold)[j])

\* two candidates, none at or above 0.05, both returned by the last resort
C10_Witness ==
    /\ rt.done
    /\ Len(rt.candidates) = 2
    /\ \A j \in 1..Len(rt.candidates) : rt.candidates[j].similarity_score < Cents(5)
    /\ Len(rt.docs) = 2

\* --------------------------------------------- search: failing strategies
\* the records of the store the where-filter of the call selects
Selected(st, a) ==
    LET match(rec) == MatchesFilters(rec, a.filter_document, a.target_person)
    IN  SelectSeq(st, match)

As(n) == [j \in 1..n |-> "a"]

Sp == <<" ">>

\* re.sub(r'\s+', ' ', text) and re.sub(r'\.{2,}', '.', text): a run of
\* the character c becomes one c
RECURSIVE CollapseRuns(_, _)
CollapseRuns(s, c) ==
    IF Len(s) < 2 THEN s
    ELSE IF s[1] = c /\ s[2] = c THEN CollapseRuns(Tail(s), c)
    ELSE <<s[1]>> \o CollapseRuns(Tail(s), c)

\* re.sub(r'[^\w\s\.\!\?\,\;\:\-\(\)]', '', text): of the characters of the
\* model only "@" is deleted
KeptByClean(c) == c # "@"

\* clean_text(text): strip, collapse whitespace, delete the other symbols,
\* collapse repeated dots, strip
CleanText(text) ==
    Strip(CollapseRuns(SelectSeq(CollapseRuns(Strip(text), " "), KeptByClean), "."))

\* re.split(r'[.!?]+', text): the pieces between the runs of dots
RECURSIVE SplitOnDots(_, _, _)
SplitOnDots(s, cur, acc) ==
    IF s = <<>> THEN Append(acc, cur)
    ELSE IF Head(s) = "."
         THEN IF Len(s) > 1 /\ s[2] = "." THEN SplitOnDots(Tail(s), cur, acc)
              ELSE SplitOnDots(Tail(s), <<>>, Append(acc, cur))
    ELSE SplitOnDots(Tail(s), Append(cur, Head(s)), acc)

\* tokenize_sentences: the stripped pieces longer than 5 characters
TokenizeSentences(text) ==
    LET pieces == SplitOnDots(CleanText(text), <<>>, <<>>)
        stripped == [j \in 1..Len(pieces) |-> Strip(pieces[j])]
        keep(p) == Len(p) > 5
    IN  SelectSeq(stripped, keep)

\* s[-k:]: the last k characters, all of s for k = 0
Suffix(s, k) == IF k = 0 \/ k >= Len(s) THEN s ELSE SubSeq(s, Len(s) - k + 1, Len(s))

\* a + " " + b if a else b
JoinSpace(a, b) == IF a # <<>> THEN a \o Sp \o b ELSE b

\* the word loop over a sentence longer than chunk_size
RECURSIVE WordLoop(_, _, _, _)
WordLoop(words, temp_chunk, chunks, chunk_size) ==
    IF words = <<>> THEN [chunks |-> chunks, current_chunk |-> temp_chunk]
    ELSE IF Len(temp_chunk) + Len(Head(words)) + 1 > chunk_size
         THEN WordLoop(Tail(words), Head(words),
                       IF temp_chunk # <<>> THEN Append(chunks, Strip(temp_chunk)) ELSE chunks,
                       chunk_size)
         ELSE WordLoop(Tail(words), JoinSpace(temp_chunk, Head(words)), chunks, chunk_size)

\* the chunk started after current_chunk was closed
CarryOver(current_chunk, sentence, overlap) ==
    IF Len(current_chunk) > overlap
    THEN Suffix(current_chunk, overlap) \o Sp \o sentence
    ELSE sentence

\* the sentence loop
RECURSIVE SentenceLoop(_, _, _, _, _)
SentenceLoop(sentences, current_chunk, chunks, chunk_size, overlap) ==
    IF sentences = <<>>
    THEN IF current_chunk # <<>> THEN Append(chunks, Strip(current_chunk)) ELSE chunks
    ELSE LET sentence == Head(sentences)
             rest == Tail(sentences)
         IN  IF Len(current_chunk) + Len(sentence) + 1 > chunk_size
             THEN IF current_chunk # <<>>
                  THEN SentenceLoop(rest, CarryOver(current_chunk, sentence, overlap),
                                    Append(chunks, Strip(current_chunk)), chunk_size, overlap)
                  ELSE IF Len(sentence) > chunk_size
                       THEN LET w == WordLoop(Split(sentence), <<>>, chunks, chunk_size)
                            IN  SentenceLoop(rest, w.current_chunk, w.chunks, chunk_size,
                                             overlap)
                       ELSE SentenceLoop(rest, sentence, chunks, chunk_size, overlap)
             ELSE SentenceLoop(rest, JoinSpace(current_chunk, sentence), chunks, chunk_size,
                               overlap)

\* chunk_text(text, chunk_size, overlap)
ChunkText(text, chunk_size, overlap) ==
    IF text = <<>> THEN <<>>
    ELSE IF Len(text) <= chunk_size THEN <<text>>
    ELSE LET chunks == SentenceLoop(TokenizeSentences(text), <<>>, <<>>, chunk_size, overlap)
             nonblank(c) == Strip(c) # <<>>
         IN  SelectSeq(chunks, nonblank)

\* ------------------------------------------------- chunking specification
MaxSentences == 3

\* the sentences texts are made of: short and long, of one or several
\* words, one too short to be kept, one with a doubled space
SentenceKinds ==
    {As(6), As(3) \o Sp \o As(3), As(4) \o Sp \o As(4) \o Sp \o As(4), As(13), As(3),
     As(3) \o Sp \o Sp \o As(3)}

\* the sentences, each closed by a dot, separated by spaces
RECURSIVE TextsOf(_)
TextsOf(n) ==
    IF n = 0 THEN {<<>>}
    ELSE {JoinSpace(t, k \o <<".">>) : t \in TextsOf(n - 1), k \in SentenceKinds}

Texts == UNION {TextsOf(n) : n \in 0..MaxSentences}

ChunkSizes == {8, 12}
Overlaps == {0, 2, 4}

Chunk(text, chunk_size, overlap) ==
    /\ ~ck.done
    /\ ck' = [done |-> TRUE, sentences |-> TokenizeSentences(text),
              chunk_size |-> chunk_size, overlap |-> overlap,
              chunks |-> ChunkText(text, chunk_size, overlap)]
    /\ UNCHANGED <<store, clock, ncalls, last, documents, proc, srch, rr, rt, nm, mg, eb, cb, px, rq>>

ChunkInit ==
    /\ store = <<>>
    /\ clock = 0
    /\ ncalls = 0
    /\ last = NoCall
    /\ documents = <<>>
    /\ proc = <<>>
    /\ srch = NoSearch
    /\ rr = NoRerank
    /\ rt = NoRetrieve
    /\ ck = NoChunking
    /\ nm = NoNormalize
    /\ mg = NoMerge
    /\ eb = NoBatch
    /\ cb = NoBuild
    /\ px = NoExtraction
    /\ rq = NoRequest

ChunkNext ==
    /\ ~ck.done
    /\ \E text \in Texts, chunk_size \in ChunkSizes, overlap \in Overlaps :
           Chunk(text, chunk_size, overlap)

SpecChunk == ChunkInit /\ [][ChunkNext]_vars

\* C12: a chunk is no longer than chunk_size unless it is one sentence or
\* one word that is itself longer, and a sentence of several words that is
\* longer than chunk_size is in no chunk as a whole
C12_ChunksWithinSize ==
    ck.done =>
        /\ \A j \in 1..Len(ck.chunks) :
               \/ Len(ck.chunks[j]) <= ck.chunk_size
               \/ \E i \in 1..Len(ck.sentences) : ck.chunks[j] = ck.sentences[i]
               \/ Len(Split(ck.chunks[j])) = 1
        /\ \A i \in 1..Len(ck.sentences) :
               (Len(ck.sentences[i]) > ck.chunk_size /\ Len(Split(ck.sentences[i])) > 1) =>
                   \A j \in 1..Len(ck.chunks) : ~Contains(ck.chunks[j], ck.sentences[i])

\* ------------------------------------------------ pipeline: invalid input
\* the upload of p extracted a content that yields no chunk: the empty
\* string an empty .txt or .docx file is read as
EmptyContent(p) == proc[p].doc # 0 /\ proc[p].n = 0

\* the upload of p was of a file that fails validation
InvalidFile(p) == proc[p].file.kind \in {"missing", "too_large", "bad_ext"}

\* the upload of p left no Document row and no vector record behind
NothingLeft(p) ==
    /\ proc[p].doc # 0 => documents[proc[p].doc].state = "rolledback"
    /\ proc[p].doc # 0 => RecordsOf(store, proc[p].doc) = {}

\* C13: an upload of a missing, oversized, unsupported or empty file
\* returns success=False with an error message and leaves no Document row,
\* no chunk rows and no vector record
C13_InvalidInputLeavesNothing ==
    \A p \in Procs :
        (proc[p].result.returned /\ (InvalidFile(p) \/ EmptyContent(p))) =>
            /\ ~proc[p].result.success
            /\ proc[p].result.error # ""
            /\ NothingLeft(p)

\* ------------------------------------------------ pipeline: status moves
\* the moves of embeddings_status the pipeline is meant to make
StatusMoves ==
    {<<"PENDING", "PROCESSING">>, <<"PROCESSING", "COMPLETED">>, <<"PROCESSING", "FAILED">>}

\* C14: a Document row is created PENDING, and its embeddings_status only
\* moves PENDING -> PROCESSING -> COMPLETED or FAILED: COMPLETED and FAILED
\* are never left, COMPLETED is never reached without PROCESSING
C14_StatusTransitions ==
    [][\A d \in 1..Len(documents') :
           IF d <= Len(documents)
           THEN \/ documents'[d].embeddings_status = documents[d].embeddings_status
                \/ <<documents[d].embeddings_status, documents'[d].embeddings_status>>
                       \in StatusMoves
           ELSE documents'[d].embeddings_status = "PENDING"]_vars

\* a document that went through to COMPLETED and one that ended FAILED
C14_Witness ==
    /\ \E d \in 1..Len(documents) : documents[d].embeddings_status = "COMPLETED"
    /\ \E d \in 1..Len(documents) : documents[d].embeddings_status = "FAILED"

\* ------------------------------------------------ one person per document
\* C15 (as claimed): all the records of the store that carry the same
\* document_id carry the same person_name_normalized and the same
\* isolation_key, the personal-information header chunk included
C15_SameNameForDocument ==
    \A i, j \in 1..Len(store) :
        store[i].document_id = store[j].document_id
            => /\ store[i].person_name_normalized = store[j].person_name_normalized
               /\ store[i].isolation_key = store[j].isolation_key

\* --------------------------------------------------------- unique chunk ids
\* C16 (as claimed): no two chunk records ever submitted to the store share
\* an id, whether they come from calls made for the same document within
\* the same second or from indexing the document again
C16_SubmittedIdsUnique ==
    \A p \in Procs :
        \A a, b \in 1..Len(proc[p].subs) :
            \A x \in 1..Len(proc[p].subs[a]), y \in 1..Len(proc[p].subs[b]) :
                (a # b \/ x # y) => proc[p].subs[a][x].id # proc[p].subs[b][y].id

\* ------------------------------------------------------ name normalisation
\* the longest name normalised
MaxNameLen == 4

\* the characters of the names: a capital, a small letter, a space and a
\* character that is neither letter nor space
NameChars == {"A", "l", " ", "_"}

RECURSIVE NamesOfLen(_)
NamesOfLen(n) ==
    IF n = 0 THEN {<<>>}
    ELSE {Append(w, c) : w \in NamesOfLen(n - 1), c \in NameChars}

Names == UNION {NamesOfLen(n) : n \in 0..MaxNameLen}

\* person_name_normalized of a chunk indexed under the name: the
\* name_normalized of _extract_person_information, "" when it has none
IndexTimeNormalized(name) ==
    ExtractPersonInformation([name |-> name], NoCustom).name_normalized

\* target_normalized of _build_isolation_filters and _is_same_person
QueryTimeNormalized(target_person) == NormalizeName(target_person)

\* a name is normalised at index time, the result is normalised again, and
\* the name is normalised as the target of a query
Normalize(name) ==
    /\ ~nm.done
    /\ nm' = [done |-> TRUE, name |-> name,
              once |-> IndexTimeNormalized(name),
              twice |-> QueryTimeNormalized(IndexTimeNormalized(name)),
              target |-> QueryTimeNormalized(name)]
    /\ UNCHANGED <<store, clock, ncalls, last, documents, proc, srch, rr, rt, ck, mg, eb, cb, px, rq>>

NormalizeInit ==
    /\ store = <<>>
    /\ clock = 0
    /\ ncalls = 0
    /\ last = NoCall
    /\ documents = <<>>
    /\ proc = <<>>
    /\ srch = NoSearch
    /\ rr = NoRerank
    /\ rt = NoRetrieve
    /\ ck = NoChunking
    /\ nm = NoNormalize
    /\ mg = NoMerge
    /\ eb = NoBatch
    /\ cb = NoBuild
    /\ px = NoExtraction
    /\ rq = NoRequest

NormalizeNext ==
    /\ ~nm.done
    /\ \E name \in Names : Normalize(name)

SpecNormalize == NormalizeInit /\ [][NormalizeNext]_vars

\* C17 (as claimed): normalising a normalised name changes nothing, and the
\* normalisation of a name at index time equals its normalisation as the
\* target_person of a query
C17_NormalizeIdempotent ==
    nm.done => /\ nm.twice = nm.once
               /\ nm.target = nm.once

\* ------------------------------------------------------------------ merge
\* the longest list of candidates merged
MaxCandidates == 3

\* the candidates the validation hands to the merge: chunk 0 or 1 of
\* document 1 under one of two names, found by the semantic strategy at
\* some distance or by the keyword strategy for some query
MergeDistances == {0, SCALE \div 2}

MergeRecords ==
    {ChunkRecord(1, i, 0, 0, c, ExtractPersonInformation(c, NoCustom), NoCustom) :
        i \in {0, 1},
        c \in [blank : {FALSE}, nsub : {2}, name : {AliDup, AliMar}, text : {"c_py"}]}

MergeCandidates ==
    {[FormatResult(rec, dist) EXCEPT !.isolation_valid = TRUE] :
        rec \in MergeRecords, dist \in MergeDistances}
    \cup {KeywordResult(rec, QueryOf(q)) : rec \in MergeRecords, q \in {"q_py", "q_en"}}

RECURSIVE CandidateLists(_)
CandidateLists(n) ==
    IF n = 0 THEN {<<>>}
    ELSE {Append(l, r) : l \in CandidateLists(n - 1), r \in MergeCandidates}

Merge(all_results) ==
    /\ ~mg.done
    /\ mg' = [done |-> TRUE, all_results |-> all_results,
              merged |-> MergeAndDeduplicate(all_results)]
    /\ UNCHANGED <<store, clock, ncalls, last, documents, proc, srch, rr, rt, ck, nm, eb, cb, px, rq>>

MergeInit ==
    /\ store = <<>>
    /\ clock = 0
    /\ ncalls = 0
    /\ last = NoCall
    /\ documents = <<>>
    /\ proc = <<>>
    /\ srch = NoSearch
    /\ rr = NoRerank
    /\ rt = NoRetrieve
    /\ ck = NoChunking
    /\ nm = NoNormalize
    /\ mg = NoMerge
    /\ eb = NoBatch
    /\ cb = NoBuild
    /\ px = NoExtraction
    /\ rq = NoRequest

MergeNext ==
    /\ ~mg.done
    /\ \E n \in 0..MaxCandidates : \E all_results \in CandidateLists(n) : Merge(all_results)

SpecMerge == MergeInit /\ [][MergeNext]_vars

\* the candidates of the merge that have the key of result r
SameKey(r) ==
    {i \in 1..Len(mg.all_results) : MergeKey(mg.all_results[i]) = MergeKey(r)}

\* C18: the merge returns at most one result per (document_id, chunk_index,
\* person_name); the similarity_score of a result is the largest
\* similarity_score of the candidates with its key; multi_strategy is true
\* on a result exactly when the candidates with its key came from more than
\* one search strategy
C18_MergeKeepsBest ==
    mg.done =>
        /\ \A i, j \in 1..Len(mg.merged) :
               i # j => MergeKey(mg.merged[i]) # MergeKey(mg.merged[j])
        /\ \A j \in 1..Len(mg.merged) :
               LET r == mg.merged[j]
               IN  /\ \E i \in SameKey(r) :
                          mg.all_results[i].similarity_score = r.similarity_score
                   /\ \A i \in SameKey(r) :
                          mg.all_results[i].similarity_score <= r.similarity_score
                   /\ r.multi_strategy <=>
                          Cardinality({mg.all_results[i].search_strategy : i \in SameKey(r)}) > 1

\* three candidates were merged, two of them one chunk found by both
\* strategies, the better score coming second
C18_Witness ==
    /\ mg.done
    /\ Len(mg.all_results) = 3
    /\ Len(mg.merged) = 2
    /\ \E j \in 1..Len(mg.merged) :
           /\ mg.merged[j].multi_strategy
           /\ \E i \in SameKey(mg.merged[j]) :
                  /\ mg.all_results[i].similarity_score = mg.merged[j].similarity_score
                  /\ \E h \in SameKey(mg.merged[j]) :
                         h < i /\ mg.all_results[h].similarity_score
                                     < mg.all_results[i].similarity_score

\* ------------------------------------------------- distance and similarity
\* C19 (as claimed): every result a search returns, whichever strategy
\* found it and also after the merge, has
\* similarity_score = max(0, min(1, 1 - distance))
C19_SimilarityFromDistance ==
    srch.done =>
        \A j \in 1..Len(srch.out.results) :
            srch.out.results[j].similarity_score
                = Clamp01(SCALE - srch.out.results[j].distance)

\* ----------------------------------------------------------- length penalty
\* C20 (as claimed): the length penalty of a re-ranked result is -0.10 when
\* its content is shorter than 50 characters, -0.05 when it has at least 50
\* and fewer than 100 characters, and 0 otherwise
C20_LengthPenalty ==
    rr.done =>
        \A j \in 1..Len(rr.results) :
            LET content_length == ContentOf(rr.results[j].rec.content).length
            IN  rr.length_penalty =
                    IF content_length < 50 THEN 0 - Cents(10)
                    ELSE IF content_length < 100 THEN 0 - Cents(5)
                    ELSE 0

\* -------------------------------------------------------- embedding batch
\* the longest list of chunks handed to one batch
MaxTexts == 3

\* "contenu vide"
Placeholder == <<"c", "o", "n", "t", "e", "n", "u", " ", "v", "i", "d", "e">>

\* model.encode: one vector per text, a function of the text alone
Encode(text) == [of |-> text]

\* the texts of the model.encode call: a text that cleans to nothing or to
\* fewer than 3 characters gives way to the placeholder
RECURSIVE CleanedTexts_DropsShort(_)
CleanedTexts_DropsShort(texts) ==
    IF texts = <<>> THEN <<>>
    ELSE (IF Len(Strip(CleanText(Head(texts)))) >= 3 THEN <<CleanText(Head(texts))>>
          ELSE <<>>) \o CleanedTexts_DropsShort(Tail(texts))

CleanedTexts(texts) ==
    [j \in 1..Len(texts) |->
        IF CleanText(texts[j]) # <<>> /\ Len(Strip(CleanText(texts[j]))) >= 3
        THEN CleanText(texts[j])
        ELSE Placeholder]

\* _generate_embeddings_batch(texts): [] for no text, an exception when the
\* service has no executor or the model fails, else the encoded texts
GenerateEmbeddingsBatch(texts, fails) ==
    IF texts = <<>> THEN [raised |-> FALSE, embeddings |-> <<>>]
    ELSE IF fails THEN [raised |-> TRUE, embeddings |-> <<>>]
    ELSE [raised |-> FALSE,
          embeddings |-> [j \in 1..Len(CleanedTexts(texts)) |->
                             Encode(CleanedTexts(texts)[j])]]

\* the chunk texts _create_isolated_chunks may hand over: blank, made of
\* deleted symbols only, too short once cleaned, and two ordinary ones
BatchTexts ==
    {<<" ">>, <<"@", "@", "@">>, <<"a", "@", "a">>, <<"a", "a", "a">>,
     <<"a", "a", " ", "a">>}

RECURSIVE TextLists(_)
TextLists(n) ==
    IF n = 0 THEN {<<>>}
    ELSE {Append(l, t) : l \in TextLists(n - 1), t \in BatchTexts}

\* the positions i of enumerate(chunks) that the loop keeps
KeptPositions(chunks) ==
    LET nonblank(i) == Strip(chunks[i + 1]) # <<>>
    IN  SelectSeq([j \in 1..Len(chunks) |-> j - 1], nonblank)

\* index_document from the loop over the chunks to collection.add, for
\* document 1: the three lists built side by side, the batch, the insertion
IndexBatch(chunks, embed_fails, add_fails) ==
    /\ ~eb.done
    /\ LET kept == KeptPositions(chunks)
           chunk_ids == [j \in 1..Len(kept) |-> <<1, kept[j], clock>>]
           chunk_texts == [j \in 1..Len(kept) |-> chunks[kept[j] + 1]]
           chunk_metadata ==
               [j \in 1..Len(kept) |->
                   [chunk_id |-> <<1, kept[j], clock>>, chunk_index |-> kept[j]]]
           batch == GenerateEmbeddingsBatch(chunk_texts, embed_fails)
           embedded == chunk_texts # <<>> /\ ~batch.raised
           usable == embedded /\ batch.embeddings # <<>>
                         /\ Len(batch.embeddings) = Len(chunk_texts)
       IN  eb' = [done |-> TRUE, chunks |-> chunks,
                  ret |-> usable /\ ~add_fails,
                  embedded |-> embedded,
                  added |-> usable /\ ~add_fails,
                  chunk_ids |-> chunk_ids, chunk_texts |-> chunk_texts,
                  chunk_metadata |-> chunk_metadata,
                  embeddings |-> batch.embeddings]
    /\ UNCHANGED <<store, clock, ncalls, last, documents, proc, srch, rr, rt, ck, nm, mg,
                   cb, px, rq>>

BatchInit ==
    /\ store = <<>>
    /\ clock = 0
    /\ ncalls = 0
    /\ last = NoCall
    /\ documents = <<>>
    /\ proc = <<>>
    /\ srch = NoSearch
    /\ rr = NoRerank
    /\ rt = NoRetrieve
    /\ ck = NoChunking
    /\ nm = NoNormalize
    /\ mg = NoMerge
    /\ eb = NoBatch
    /\ cb = NoBuild
    /\ px = NoExtraction
    /\ rq = NoRequest

BatchNext ==
    /\ ~eb.done
    /\ \E n \in 0..MaxTexts : \E chunks \in TextLists(n) :
           \E embed_fails, add_fails \in BOOLEAN :
               IndexBatch(chunks, embed_fails, add_fails)

SpecBatch == BatchInit /\ [][BatchNext]_vars

\* C21: a batch that returns holds one vector per text, in the order of the
\* texts, the vector of a text that cleans to under 3 characters being the
\* placeholder's; and the j-th id, text, metadata and vector handed to the
\* store are those of one chunk
C21_BatchAligned ==
    eb.done =>
        /\ eb.embedded =>
               /\ Len(eb.embeddings) = Len(eb.chunk_texts)
               /\ \A j \in 1..Len(eb.embeddings) :
                      eb.embeddings[j] =
                          Encode(IF Len(CleanText(eb.chunk_texts[j])) >= 3
                                 THEN CleanText(eb.chunk_texts[j]) ELSE Placeholder)
        /\ eb.added =>
               /\ Len(eb.chunk_ids) = Len(eb.chunk_texts)
               /\ Len(eb.chunk_metadata) = Len(eb.chunk_texts)
               /\ Len(eb.embeddings) = Len(eb.chunk_texts)
               /\ \A j \in 1..Len(eb.chunk_texts) :
                      LET i == eb.chunk_metadata[j].chunk_index
                      IN  /\ i + 1 \in 1..Len(eb.chunks)
                          /\ eb.chunk_texts[j] = eb.chunks[i + 1]
                          /\ eb.chunk_ids[j] = <<1, i, clock>>
                          /\ eb.chunk_metadata[j].chunk_id = eb.chunk_ids[j]
                          /\ eb.embeddings[j].of \in {CleanText(eb.chunks[i + 1]), Placeholder}

\* a batch was stored in which a blank chunk was skipped and a later text
\* was replaced by the placeholder
C21_Witness ==
    /\ eb.done /\ eb.added
    /\ Len(eb.chunk_texts) = 2 /\ Len(eb.chunks) = 3
    /\ \E j \in 1..Len(eb.chunk_texts) :
           /\ eb.embeddings[j] = Encode(Placeholder)
           /\ eb.chunk_metadata[j].chunk_index = j

\* ----------------------------------------------------------- chunk builder
\* the most paragraphs of a document, and RAG_CHUNK_SIZE scaled down
MaxParagraphs == 3
BuildChunkSize == 10

\* the paragraphs content.split('\n\n') gives: blank, short ones, one long
\* sentence, two sentences that are too long together
Paragraphs == {<<>>, As(3), As(6), As(12), As(5) \o <<".", " ">> \o As(5) \o <<".">>}

RECURSIVE ParagraphLists(_)
ParagraphLists(n) ==
    IF n = 0 THEN {<<>>}
    ELSE {Append(l, t) : l \in ParagraphLists(n - 1), t \in Paragraphs}

\* what _extract_personal_info found: nothing, a name, or only a specialty
\* without a confirmed form (a header chunk but no context prefix)
PersonalInfos == {"none", "named", "specialty_only"}

\* DocumentChunkData(content, chunk_index, ..., metadata); chunk_type is
\* "personal_info" in the metadata of the header chunk only
CreateChunkData(content, index, chunk_type) ==
    [content |-> content, chunk_index |-> index, chunk_type |-> chunk_type]

\* the text of the header chunk
HeaderText == <<"h">>

\* context_prefix: "[Étudiant: ...] " when a name was found
ContextPrefix(info) == IF info = "named" THEN <<"p", " ">> ELSE <<>>

\* _split_long_paragraph: the sentences of the paragraph packed into pieces
RECURSIVE SplitLongLoop(_, _, _)
SplitLongLoop(sentences, current_chunk, chunks) ==
    IF sentences = <<>>
    THEN (IF current_chunk # <<>> THEN Append(chunks, current_chunk \o <<".">>) ELSE chunks)
    ELSE LET sentence == Strip(Head(sentences))
         IN  IF sentence = <<>> THEN SplitLongLoop(Tail(sentences), current_chunk, chunks)
             ELSE IF Len(current_chunk) + Len(sentence) + 2 <= BuildChunkSize
                  THEN SplitLongLoop(Tail(sentences),
                                     IF current_chunk # <<>>
                                     THEN current_chunk \o <<".", " ">> \o sentence
                                     ELSE sentence,
                                     chunks)
                  ELSE SplitLongLoop(Tail(sentences), sentence,
                                     IF current_chunk # <<>>
                                     THEN Append(chunks, current_chunk \o <<".">>)
                                     ELSE chunks)

SplitLongParagraph(paragraph) ==
    SplitLongLoop(SplitOnDots(paragraph, <<>>, <<>>), <<>>, <<>>)

\* chunks.append(self._create_chunk_data(context_prefix + text, chunk_index, ...))
\* for each text in turn, chunk_index += 1 after each
RECURSIVE AppendChunks(_, _, _, _)
AppendChunks(chunks, chunk_index, texts, prefix) ==
    IF texts = <<>> THEN [chunks |-> chunks, chunk_index |-> chunk_index]
    ELSE AppendChunks(Append(chunks, CreateChunkData(prefix \o Head(texts), chunk_index, "")),
                      chunk_index + 1, Tail(texts), prefix)

\* the loop of _chunk_text_enhanced over the paragraphs, and the last chunk
RECURSIVE EnhancedLoop(_, _, _, _, _)
EnhancedLoop(paragraphs, current_chunk, chunks, chunk_index, prefix) ==
    IF paragraphs = <<>>
    THEN AppendChunks(chunks, chunk_index,
                      IF current_chunk # <<>> THEN <<current_chunk>> ELSE <<>>, prefix).chunks
    ELSE LET paragraph == Strip(Head(paragraphs))
             flushed == AppendChunks(chunks, chunk_index,
                                     IF current_chunk # <<>> THEN <<current_chunk>> ELSE <<>>,
                                     prefix)
         IN  IF paragraph = <<>>
             THEN EnhancedLoop(Tail(paragraphs), current_chunk, chunks, chunk_index, prefix)
             ELSE IF Len(paragraph) > BuildChunkSize
             THEN LET split == AppendChunks(flushed.chunks, flushed.chunk_index,
                                            SplitLongParagraph(paragraph), prefix)
                  IN  EnhancedLoop(Tail(paragraphs), <<>>, split.chunks, split.chunk_index,
                                   prefix)
             ELSE IF Len(current_chunk) + Len(paragraph) + 2 <= BuildChunkSize - Len(prefix)
             THEN EnhancedLoop(Tail(paragraphs),
                               IF current_chunk # <<>>
                               THEN current_chunk \o <<"\n", "\n">> \o paragraph
                               ELSE paragraph,
                               chunks, chunk_index, prefix)
             ELSE EnhancedLoop(Tail(paragraphs), paragraph, flushed.chunks,
                               flushed.chunk_index, prefix)

\* content.split(): the words of all the paragraphs
RECURSIVE WordsOf(_)
WordsOf(paragraphs) ==
    IF paragraphs = <<>> THEN <<>> ELSE Split(Head(paragraphs)) \o WordsOf(Tail(paragraphs))

RECURSIVE JoinWords(_)
JoinWords(words) ==
    IF words = <<>> THEN <<>>
    ELSE IF Len(words) = 1 THEN Head(words)
    ELSE Head(words) \o Sp \o JoinWords(Tail(words))

\* _chunk_text_simple: the words packed into chunks of chunk_size
RECURSIVE SimpleLoop(_, _, _, _, _)
SimpleLoop(words, current_chunk, current_length, chunks, chunk_index) ==
    IF words = <<>>
    THEN (IF current_chunk # <<>>
          THEN Append(chunks, CreateChunkData(JoinWords(current_chunk), chunk_index, ""))
          ELSE chunks)
    ELSE LET word_length == Len(Head(words)) + 1
         IN  IF current_length + word_length > BuildChunkSize /\ current_chunk # <<>>
             THEN SimpleLoop(Tail(words), <<Head(words)>>, word_length,
                             Append(chunks,
                                    CreateChunkData(JoinWords(current_chunk), chunk_index, "")),
                             chunk_index + 1)
             ELSE SimpleLoop(Tail(words), Append(current_chunk, Head(words)),
                             current_length + word_length, chunks, chunk_index)

ChunkTextSimple(paragraphs) == SimpleLoop(WordsOf(paragraphs), <<>>, 0, <<>>, 0)

\* _chunk_text_enhanced, with its fallback to the simple chunking
ChunkTextEnhanced(paragraphs, info, enhanced_raises) ==
    IF enhanced_raises THEN ChunkTextSimple(paragraphs)
    ELSE EnhancedLoop(paragraphs, <<>>, <<>>, 0, ContextPrefix(info))

\* a loop that appends the regular chunks with the index they came with
Renumbered_KeepsIndex(chunks, regular_chunks) == chunks \o regular_chunks

\* for chunk in regular_chunks: chunk.chunk_index = len(chunks); chunks.append(chunk)
RECURSIVE Renumbered(_, _)
Renumbered(chunks, regular_chunks) ==
    IF regular_chunks = <<>> THEN chunks
    ELSE Renumbered(Append(chunks, [Head(regular_chunks) EXCEPT !.chunk_index = Len(chunks)]),
                    Tail(regular_chunks))

\* _chunk_text_with_personal_info: the header chunk when anything was found,
\* then the regular chunks renumbered; the simple chunking when the
\* extraction raises
ChunkTextWithPersonalInfo(paragraphs, info, extract_raises, enhanced_raises) ==
    IF extract_raises THEN ChunkTextSimple(paragraphs)
    ELSE Renumbered(IF info # "none"
                    THEN <<CreateChunkData(HeaderText, 0, "personal_info")>> ELSE <<>>,
                    ChunkTextEnhanced(paragraphs, info, enhanced_raises))

Build(paragraphs, info, extract_raises, enhanced_raises) ==
    /\ ~cb.done
    /\ extract_raises => info = "none"
    /\ cb' = [done |-> TRUE, info |-> info, paragraphs |-> paragraphs,
              chunks |-> ChunkTextWithPersonalInfo(paragraphs, info, extract_raises,
                                                   enhanced_raises)]
    /\ UNCHANGED <<store, clock, ncalls, last, documents, proc, srch, rr, rt, ck, nm, mg,
                   eb, px, rq>>

BuildInit ==
    /\ store = <<>>
    /\ clock = 0
    /\ ncalls = 0
    /\ last = NoCall
    /\ documents = <<>>
    /\ proc = <<>>
    /\ srch = NoSearch
    /\ rr = NoRerank
    /\ rt = NoRetrieve
    /\ ck = NoChunking
    /\ nm = NoNormalize
    /\ mg = NoMerge
    /\ eb = NoBatch
    /\ cb = NoBuild
    /\ px = NoExtraction
    /\ rq = NoRequest

BuildNext ==
    /\ ~cb.done
    /\ \E n \in 0..MaxParagraphs : \E paragraphs \in ParagraphLists(n) :
           \E info \in PersonalInfos, extract_raises, enhanced_raises \in BOOLEAN :
               Build(paragraphs, info, extract_raises, enhanced_raises)

SpecBuild == BuildInit /\ [][BuildNext]_vars

\* C22: the chunks of a document carry chunk_index 0, 1, ..., n-1 in list
\* order, and when personal information was extracted the chunk at index 0
\* is the personal-information header
C22_SequentialChunkIndex ==
    cb.done =>
        /\ \A j \in 1..Len(cb.chunks) : cb.chunks[j].chunk_index = j - 1
        /\ cb.info # "none" =>
               /\ cb.chunks # <<>>
               /\ cb.chunks[1].chunk_type = "personal_info"

\* a header chunk followed by at least two regular chunks
C22_Witness ==
    /\ cb.done
    /\ cb.info = "named"
    /\ Len(cb.chunks) >= 3
    /\ cb.chunks[1].chunk_type = "personal_info"
    /\ cb.chunks[3].chunk_type = ""

\* ----------------------------------------------------------- PDF extraction
\* the most pages of a PDF file
MaxPages == 2

\* the extractors in the order of the code; PyPDF2 is always tried
Extractors == <<"pymupdf", "pdfplumber", "pypdf2">>
Availabilities == {a \cup {"pypdf2"} : a \in SUBSET {"pymupdf", "pdfplumber"}}

\* what an extractor makes of the pages of the file: text, nothing, for
\* pdfplumber a table without text, for PyPDF2 a page whose extraction raises
PageKinds(name) ==
    CASE name = "pymupdf" -> {"text", "blank"}
      [] name = "pdfplumber" -> {"text", "blank", "table"}
      [] OTHER -> {"text", "blank", "error"}

RECURSIVE PageLists(_, _)
PageLists(name, n) ==
    IF n = 0 THEN {<<>>}
    ELSE {Append(l, k) : l \in PageLists(name, n - 1), k \in PageKinds(name)}

PagesSeenBy(name) == UNION {PageLists(name, n) : n \in 0..MaxPages}

\* an extractor run: it raises nothing, or it raises when it opens the file,
\* or after it has gone through `after` pages
NoFault == [raises |-> FALSE, at_open |-> FALSE, after |-> 0]
Faults(pages) ==
    {NoFault, [raises |-> TRUE, at_open |-> TRUE, after |-> 0]}
        \cup {[raises |-> TRUE, at_open |-> FALSE, after |-> k] : k \in 0..Len(pages)}

\* f"[Page {n}]\n{text}" and f"[Tableau Page {n}]\n{table_text}" as read by
\* the extractor
Part(name, n) == [by |-> name, page |-> n]

\* the parts an extractor appends while it goes through the first k pages
RECURSIVE PartsOf(_, _, _)
PartsOf(name, pages, k) ==
    IF k = 0 THEN <<>>
    ELSE PartsOf(name, pages, k - 1)
             \o (IF pages[k] \in {"text", "table"} THEN <<Part(name, k)>> ELSE <<>>)

\* the parts collected before the fault, all of them without one
Collected(name, pages, fault) ==
    IF fault.raises /\ fault.at_open THEN <<>>
    ELSE PartsOf(name, pages, IF fault.raises THEN fault.after ELSE Len(pages))

Tried(name, fault, parts) == [name |-> name, failed |-> fault.raises, parts |-> parts]

\* _extract_pdf_content is called: content_parts = []
PX_Start(available) ==
    /\ px.pc = "idle"
    /\ px' = [NoExtraction EXCEPT !.pc = "pymupdf", !.available = available]
    /\ UNCHANGED <<store, clock, ncalls, last, documents, proc, srch, rr, rt, ck, nm, mg,
                   eb, cb, rq>>

\* method 1, if PYMUPDF_AVAILABLE: the pages are appended to content_parts
PX_PyMuPDF(pages, fault) ==
    /\ px.pc = "pymupdf"
    /\ IF "pymupdf" \notin px.available
       THEN /\ pages = <<>> /\ fault = NoFault
            /\ px' = [px EXCEPT !.pc = "pdfplumber"]
       ELSE LET parts == Collected("pymupdf", pages, fault)
                content_parts == px.content_parts \o parts
                tried == Append(px.tried, Tried("pymupdf", fault, parts))
            IN  IF ~fault.raises /\ content_parts # <<>>
                THEN px' = [px EXCEPT !.pc = "done", !.returned = TRUE,
                                      !.content = content_parts,
                                      !.content_parts = content_parts, !.tried = tried]
                ELSE px' = [px EXCEPT !.pc = "pdfplumber",
                                      !.content_parts = content_parts, !.tried = tried]
    /\ UNCHANGED <<store, clock, ncalls, last, documents, proc, srch, rr, rt, ck, nm, mg,
                   eb, cb, rq>>

\* a pdfplumber run that goes on with the content_parts it finds
PlumberParts_KeepsOld(old, fault) == old

\* content_parts = [] once pdfplumber.open has succeeded
PlumberParts(old, fault) == IF fault.raises /\ fault.at_open THEN old ELSE <<>>

\* method 2, if PDFPLUMBER_AVAILABLE
PX_Pdfplumber(pages, fault) ==
    /\ px.pc = "pdfplumber"
    /\ IF "pdfplumber" \notin px.available
       THEN /\ pages = <<>> /\ fault = NoFault
            /\ px' = [px EXCEPT !.pc = "pypdf2"]
       ELSE LET parts == Collected("pdfplumber", pages, fault)
                content_parts == PlumberParts(px.content_parts, fault) \o parts
                tried == Append(px.tried, Tried("pdfplumber", fault, parts))
            IN  IF ~fault.raises /\ content_parts # <<>>
                THEN px' = [px EXCEPT !.pc = "done", !.returned = TRUE,
                                      !.content = content_parts,
                                      !.content_parts = content_parts, !.tried = tried]
                ELSE px' = [px EXCEPT !.pc = "pypdf2",
                                      !.content_parts = content_parts, !.tried = tried]
    /\ UNCHANGED <<store, clock, ncalls, last, documents, proc, srch, rr, rt, ck, nm, mg,
                   eb, cb, rq>>

\* method 3, PyPDF2 with its own list `content`; a page that raises is
\* skipped; then the ValueError
PX_PyPDF2(pages, fault) ==
    /\ px.pc = "pypdf2"
    /\ LET content == Collected("pypdf2", pages, fault)
           tried == Append(px.tried, Tried("pypdf2", fault, content))
       IN  IF ~fault.raises /\ content # <<>>
           THEN px' = [px EXCEPT !.pc = "done", !.returned = TRUE,
                                 !.content = content, !.tried = tried]
           ELSE px' = [px EXCEPT !.pc = "done", !.raised = TRUE, !.tried = tried]
    /\ UNCHANGED <<store, clock, ncalls, last, documents, proc, srch, rr, rt, ck, nm, mg,
                   eb, cb, rq>>

ExtractInit ==
    /\ store = <<>>
    /\ clock = 0
    /\ ncalls = 0
    /\ last = NoCall
    /\ documents = <<>>
    /\ proc = <<>>
    /\ srch = NoSearch
    /\ rr = NoRerank
    /\ rt = NoRetrieve
    /\ ck = NoChunking
    /\ nm = NoNormalize
    /\ mg = NoMerge
    /\ eb = NoBatch
    /\ cb = NoBuild
    /\ px = NoExtraction
    /\ rq = NoRequest

ExtractNext ==
    \/ \E available \in Availabilities : PX_Start(available)
    \/ \E pages \in PagesSeenBy("pymupdf") : \E fault \in Faults(pages) :
           PX_PyMuPDF(pages, fault)
    \/ \E pages \in PagesSeenBy("pdfplumber") : \E fault \in Faults(pages) :
           PX_Pdfplumber(pages, fault)
    \/ \E pages \in PagesSeenBy("pypdf2") : \E fault \in Faults(pages) :
           PX_PyPDF2(pages, fault)

SpecExtract == ExtractInit /\ [][ExtractNext]_vars

\* the available extractors in the order of the code
AvailableInOrder == SelectSeq(Extractors, LAMBDA e : e \in px.available)

\* an extractor run that gave no content: it raised or found nothing
GaveNothing(t) == t.failed \/ t.parts = <<>>

\* C23: the extractors run in the order PyMuPDF, pdfplumber, PyPDF2, each
\* only after the ones before it raised or found nothing; the text returned
\* is the output of the first that raised nothing and found something, and
\* holds no page of an extractor that failed; the error is raised only when
\* every available extractor raised or found nothing
C23_FirstSuccessWins ==
    LET n == Len(px.tried)
    IN  /\ n <= Len(AvailableInOrder)
        /\ \A j \in 1..n : px.tried[j].name = AvailableInOrder[j]
        /\ \A j \in 1..(n - 1) : GaveNothing(px.tried[j])
        /\ px.returned =>
               /\ n >= 1
               /\ ~GaveNothing(px.tried[n])
               /\ px.content = px.tried[n].parts
               /\ \A i \in 1..Len(px.content) : px.content[i].by = px.tried[n].name
        /\ px.raised =>
               /\ n = Len(AvailableInOrder)
               /\ \A j \in 1..n : GaveNothing(px.tried[j])
        /\ px.pc = "done" <=> (px.returned \/ px.raised)

\* PyMuPDF raised after it had collected a page, and pdfplumber returned
\* its own pages
C23_Witness ==
    /\ px.returned
    /\ Len(px.tried) = 2
    /\ px.tried[1].failed /\ px.tried[1].parts # <<>>
    /\ px.tried[2].name = "pdfplumber"

\* ------------------------------------------------------ generation request
\* the largest config['max_retries']
MaxRetries == 3

\* what one session.post brings: 200 with a readable body, 200 with a body
\* that makes the parsing raise, 429, another status, a timeout, another
\* exception
Responses == {"200", "200_unreadable", "429", "500", "timeout", "error"}

RECURSIVE Pow2(_)
Pow2(n) == IF n = 0 THEN 1 ELSE 2 * Pow2(n - 1)

\* retries = 0 before the loop
RQ_Start(max_retries) ==
    /\ rq.pc = "idle"
    /\ rq' = [NoRequest EXCEPT !.pc = "loop", !.max_retries = max_retries]
    /\ UNCHANGED <<store, clock, ncalls, last, documents, proc, srch, rr, rt, ck, nm, mg,
                   eb, cb, px>>

\* a loop in which a 429 does not count as a retry
RetriesAfter_RateLimitFree(response, retries) ==
    IF response = "429" THEN retries ELSE retries + 1

\* retries += 1 on every turn of the loop that goes on
RetriesAfter(response, retries) == retries + 1

\* one turn of the while loop: the POST, and what the response leads to
RQ_Attempt(response) ==
    /\ rq.pc = "loop"
    /\ rq.retries <= rq.max_retries
    /\ LET slept(seconds) ==
               Append(rq.attempts, [response |-> response, slept |-> seconds])
       IN  CASE response = "200" ->
                    rq' = [rq EXCEPT !.pc = "done", !.returned = TRUE,
                                     !.attempts = slept(0)]
             [] response = "429" ->
                    rq' = [rq EXCEPT !.retries = RetriesAfter(response, rq.retries),
                                     !.attempts = slept(Pow2(rq.retries))]
             [] response = "timeout" ->
                    IF rq.retries + 1 > rq.max_retries
                    THEN rq' = [rq EXCEPT !.pc = "done", !.raised = TRUE,
                                          !.retries = rq.retries + 1,
                                          !.attempts = slept(0)]
                    ELSE rq' = [rq EXCEPT !.retries = RetriesAfter(response, rq.retries),
                                          !.attempts = slept(1)]
             [] OTHER ->
                    IF rq.retries >= rq.max_retries
                    THEN rq' = [rq EXCEPT !.pc = "done", !.raised = TRUE,
                                          !.attempts = slept(0)]
                    ELSE rq' = [rq EXCEPT !.retries = RetriesAfter(response, rq.retries),
                                          !.attempts = slept(1)]
    /\ UNCHANGED <<store, clock, ncalls, last, documents, proc, srch, rr, rt, ck, nm, mg,
                   eb, cb, px>>

\* the loop condition fails: raise Exception("Échec après ... tentatives")
RQ_Exhausted ==
    /\ rq.pc = "loop"
    /\ rq.retries > rq.max_retries
    /\ rq' = [rq EXCEPT !.pc = "done", !.raised = TRUE]
    /\ UNCHANGED <<store, clock, ncalls, last, documents, proc, srch, rr, rt, ck, nm, mg,
                   eb, cb, px>>

RequestInit ==
    /\ store = <<>>
    /\ clock = 0
    /\ ncalls = 0
    /\ last = NoCall
    /\ documents = <<>>
    /\ proc = <<>>
    /\ srch = NoSearch
    /\ rr = NoRerank
    /\ rt = NoRetrieve
    /\ ck = NoChunking
    /\ nm = NoNormalize
    /\ mg = NoMerge
    /\ eb = NoBatch
    /\ cb = NoBuild
    /\ px = NoExtraction
    /\ rq = NoRequest

RequestNext ==
    \/ \E max_retries \in 0..MaxRetries : RQ_Start(max_retries)
    \/ \E response \in Responses : RQ_Attempt(response)
    \/ RQ_Exhausted

\* every POST is answered or times out (the session has a total timeout),
\* and the event loop resumes the coroutine
SpecRequest == RequestInit /\ [][RequestNext]_vars /\ WF_vars(RequestNext)

\* C24: _make_request makes at most max_retries + 1 HTTP attempts, waits
\* 2^retries seconds after a 429 (retries being the number of attempts made
\* before it), and ends, with a response or with an exception
C24_BoundedRetries ==
    /\ [](/\ Len(rq.attempts) <= rq.max_retries + 1
          /\ \A j \in 1..Len(rq.attempts) :
                 rq.attempts[j].response = "429" => rq.attempts[j].slept = Pow2(j - 1)
          /\ rq.pc = "done" => (rq.returned # rq.raised))
    /\ <>(rq.pc = "done")

\* every attempt allowed was made and met a 429, and the call raised
C24_Witness ==
    /\ rq.pc = "done" /\ rq.raised
    /\ rq.max_retries >= 2
    /\ Len(rq.attempts) = rq.max_retries + 1
    /\ \A j \in 1..Len(rq.attempts) : rq.attempts[j].response = "429"

\* ------------------------------------------------- pipeline: stage order
\* this step writes to the vector store
StoreWritten == store' # store

\* the store is written for a document whose chunking is over (its chunk
\* rows are saved) and whose status is PROCESSING
WriteAfterChunking ==
    \E p \in Procs :
        /\ proc[p].pc = "indexing"
        /\ proc[p].doc \in 1..Len(documents)
        /\ documents[proc[p].doc].chunk_rows = proc[p].n
        /\ documents[proc[p].doc].embeddings_status = "PROCESSING"
        /\ \A j \in 1..Len(store') :
               store'[j] \notin Range(store) => store'[j].document_id = IntV(proc[p].doc)

\* this step sets the status of document d to one of `finals`
StatusSet(d, finals) ==
    /\ d \in 1..Len(documents)
    /\ documents'[d].embeddings_status \in finals
    /\ documents[d].embeddings_status \notin finals

\* the indexing attempts made for document d so far
Attempts(d) == {Len(proc[p].rets) : p \in {q \in Procs : proc[q].doc = d}}

\* the chunks of document d
ChunksOf(d) == {proc[p].n : p \in {q \in Procs : proc[q].doc = d}}

\* C25 (as claimed): the vector store is written for a document only once
\* its chunking is over and its status is PROCESSING, and the status is
\* set to COMPLETED or FAILED only after an indexing attempt has been made
\* for every chunk
C25_StagesOrdered ==
    [][/\ StoreWritten => WriteAfterChunking
       /\ \A d \in 1..Len(documents) :
              StatusSet(d, {"COMPLETED", "FAILED"}) => Attempts(d) = ChunksOf(d)]_vars

\* C25 (amended): as above, except that FAILED is also set before any
\* attempt when the embedding service cannot be made ready; no attempt
\* follows it
C25_StagesOrderedOrAborted ==
    [][/\ StoreWritten => WriteAfterChunking
       /\ \A d \in 1..Len(documents) :
              /\ StatusSet(d, {"COMPLETED"}) => Attempts(d) = ChunksOf(d)
              /\ StatusSet(d, {"FAILED"}) =>
                     \/ Attempts(d) = ChunksOf(d)
                     \/ /\ Attempts(d) = {0}
                        /\ \A p \in Procs :
                               proc[p].doc = d =>
                                   proc[p].svc = "uninitialised" /\ proc'[p].pc = "embedded"]_vars

\* one document went through both its chunks to COMPLETED, another was
\* marked FAILED before any of its chunks was tried
C25_Witness ==
    /\ \E p \in Procs :
           /\ proc[p].doc # 0 /\ proc[p].n = 2 /\ Len(proc[p].rets) = 2
           /\ documents[proc[p].doc].embeddings_status = "COMPLETED"
    /\ \E p \in Procs :
           /\ proc[p].doc # 0 /\ proc[p].n >= 1 /\ proc[p].rets = <<>>
           /\ proc[p].svc = "uninitialised"
           /\ documents[proc[p].doc].embeddings_status = "FAILED"



\* ------------------------------------------------- failed re-index
\* the step is an index_document call that returned False
FailedIndexCall == last'.n # last.n /\ ~last'.ret

\* C26: when index_document(d, ...) returns False, the store's records of
\* document d are the ones it had before the call: a failed re-index
\* never removes the chunks indexed before
C26_FailedIndexKeepsRecords ==
    [][FailedIndexCall => RecordsOf(store', last'.d) = RecordsOf(store, last'.d)]_vars


\* ------------------------------------------------- reserved fields
\* record j of the last call carries the fields index_document computes
ReservedFieldsKept(d, j, r) ==
    /\ r.document_id = StrV(d)
    /\ r.chunk_index = j - 1
    /\ r.isolation_key = DocStr(d) \o <<"_">> \o
           (IF r.person_name_normalized # <<>> THEN r.person_name_normalized ELSE Unknown)

\* C27: whatever keys the caller's metadata holds, every record written by
\* index_document(d, content, metadata) has document_id = str(d),
\* chunk_index = its position in the call and the isolation key of d and
\* the extracted person
C27_ReservedFieldsKept ==
    \A j \in 1..Len(last.submitted) : ReservedFieldsKept(last.d, j, last.submitted[j])


\* ------------------------------------------------- merge key and records
\* the record was indexed with the pipeline's metadata: its document_id is
\* the integer id _generate_embeddings_sync passes
PipelineIndexed(r) == r.document_id.ty = "int"

\* two records of the store that the merge step takes for one result
Collapsed(r1, r2) ==
    /\ r1.id # r2.id
    /\ MergeKey([rec |-> r1]) = MergeKey([rec |-> r2])

\* C28: (document_id, chunk_index, person_name) identifies at most one
\* stored record of the documents indexed through the pipeline, so the merge
\* step never collapses two different records into one result
C28_MergeKeyIdentifiesRecord ==
    \A i, j \in 1..Len(store) :
        (PipelineIndexed(store[i]) /\ PipelineIndexed(store[j]))
            => ~Collapsed(store[i], store[j])


\* ------------------------------------------------- success and status
\* C29: whenever process_document has returned success=True, the
\* embeddings_status of the returned document is COMPLETED
C29_SuccessMeansCompleted ==
    \A p \in Procs :
        (proc[p].result.returned /\ proc[p].result.success) =>
            documents[proc[p].result.document_id].embeddings_status = "COMPLETED"


\* the embeddings_status process_document leaves on the document it
\* returns with success=True: PENDING without an embedding service, FAILED
\* when the service cannot be made ready or no chunk was counted,
\* COMPLETED otherwise
StatusAtSuccess(p) ==
    IF proc[p].svc = "none" THEN "PENDING"
    ELSE IF proc[p].svc = "uninitialised" \/ proc[p].n = 0 THEN "FAILED"
    ELSE "COMPLETED"

\* C29 (amended): whenever process_document has returned success=True, the
\* returned document is committed and its embeddings_status is PENDING,
\* FAILED or COMPLETED as the service and the chunk count decide, never
\* PROCESSING
C29_SuccessStatusByService ==
    \A p \in Procs :
        (proc[p].result.returned /\ proc[p].result.success) =>
            LET d == proc[p].result.document_id
            IN  /\ d = proc[p].doc
                /\ documents[d].state \in {"committed", "deleted"}
                /\ documents[d].embeddings_status = StatusAtSuccess(p)

\* a call returned success=True for a document whose status is FAILED
C29_Witness ==
    \E p \in Procs :
        /\ proc[p].result.returned
        /\ proc[p].result.success
        /\ proc[p].svc = "uninitialised"
        /\ documents[proc[p].result.document_id].embeddings_status = "FAILED"


\* --------------------------------------- two concurrent process_document
\* the byte-identical file both requests upload, and the chunks it is cut
\* into (it names a person: the first chunk is the header)
RaceFile == [kind |-> "ok", hash |-> 1]
RaceChunks == 2

\* two requests run process_document on RaceFile, each in its own session;
\* a request is suspended at its awaits (the executor calls of
\* _extract_metadata, _extract_content and index_document) and the other
\* one runs: no request waits for the answer of the other
RaceNext ==
    \/ \E p \in Procs, svc \in Services : PD_Start(p, RaceFile, svc)
    \/ \E p \in Procs : PD_Create(p, RaceChunks, TRUE)
    \/ \E p \in Procs : PD_BeginEmbeddings(p)
    \/ \E p \in Procs : PD_CheckService(p)
    \/ \E p \in Procs, content \in PipelineContents, env \in Envs :
          PD_IndexChunk(p, content, env)
    \/ \E p \in Procs : PD_Finish(p)
    \/ \E p \in Procs : PD_Return(p)

SpecRace == Init /\ [][RaceNext]_vars

\* both requests have been answered
RaceOver == \A p \in Procs : proc[p].result.returned

\* the committed Document rows with the checksum of RaceFile
RowsOfRaceFile ==
    {d \in 1..Len(documents) :
        documents[d].state = "committed" /\ documents[d].file_hash = RaceFile.hash}

\* C30: for every interleaving of two process_document calls on
\* byte-identical files, at most one Document row with the checksum exists
\* afterwards, exactly one call returns success=True, and the other returns
\* success=False with the document_id of the document the first one created
C30_OneWinnerNamesFirst ==
    RaceOver =>
        /\ Cardinality(RowsOfRaceFile) <= 1
        /\ \E p \in Procs :
               /\ proc[p].result.success
               /\ \A q \in Procs \ {p} :
                      /\ ~proc[q].result.success
                      /\ proc[q].result.document_id = proc[p].result.document_id

====
